---- MODULE Spec2Model ----
(***************************************************************************)
(* Verification model of the table-search agent.                           *)
(*                                                                         *)
(*   Part 1  graph.py / state.py : the LangGraph pipeline built by         *)
(*           build_graph, run superstep by superstep over AgentState.      *)
(*   Part 2  rag/optimized_retriever.py : _tokenize, _compute_bm25_score   *)
(*   Part 3  rag/optimized_retriever.py : search (fusion ranking)          *)
(*   Part 4  rag/optimized_retriever.py : _rerank_with_llm (interleaving)  *)
(*   Part 5  rag/llm_query_expander.py + search : collaborator failures    *)
(*   Part 6  rag/optimized_retriever.py : index_table, delete_table,       *)
(*           get_table, count, clear and the inverted index                *)
(*   Part 7  memory/feedback_store.py : generate_concept_hash              *)
(*   Part 8  memory/feedback_store.py : FeedbackStore                      *)
(*                                                                         *)
(* Each part has its own specification; the variables of the other parts   *)
(* stay at their initial values under it.                                  *)
(***************************************************************************)
EXTENDS Integers, Sequences, FiniteSets, TLC

VARIABLES
    \* ---- Part 1: pipeline (graph.py) ----
    tasks,        \* nodes scheduled in the current superstep
    called,       \* nodes of the superstep whose wrapper has been entered
    returned,     \* nodes of the superstep whose wrapper has returned
    writes,       \* node -> partial update returned in this superstep
    runs,         \* node -> number of times its wrapper was entered
    completed,    \* nodes whose wrapper has returned at some time
    state,        \* the shared AgentState
    status,       \* "running" | "done" | "aborted"
    failed,       \* nodes whose implementation failed internally
    mergeSaw,     \* what merge_results read when it was entered
    decision,     \* the dict returned by decide (graph.py 69-91)
    \* ---- Part 2: _compute_bm25_score ----
    bm_query,     \* the (expanded) query text
    bm_table,     \* the table dict
    bm_score,     \* the returned score, a fraction <<num, den>>, or None
    bm_pc,        \* "off" | "input" | "scored"
    \* ---- Parts 3-5: OptimizedRetriever.search ----
    s_query,          \* the query passed to search
    max_results,      \* search argument
    expanded_query,   \* the text _compute_bm25_score is given
    tables_cache,     \* ids whose full table dict is in _tables_cache
    name_results,     \* hits of the name collection
    desc_results,     \* hits of the description collection
    keywords_results, \* hits of the keywords collection
    scores,           \* the scores dict: id -> sub-scores and combined
    score_order,      \* insertion order of the scores dict
    results,          \* the result list built from the fusion ranking
    enable_rerank,    \* search argument
    llm_reply,        \* what the rerank collaborator answered
    returned_results, \* the list search returns
    expander_cache,   \* OpenRouterQueryExpander._cache
    s_error,          \* the exception that left search, or None
    s_pc,             \* position inside search
    \* ---- Part 6: the stores of OptimizedRetriever ----
    _collections,     \* view -> (id -> [document, metadata])
    _inverted_index,  \* token -> set of table ids
    _tables_cache,    \* id -> the full table dict
    index_calls,      \* caller -> the index_table call it has in flight
    st_last,          \* the last step of a store operation and its result
    \* ---- Part 7: generate_concept_hash ----
    hash_in,          \* the intent handed to generate_concept_hash
    hash_out,         \* its concept hash, or NoHash
    \* ---- Part 8: FeedbackStore ----
    use_postgres,     \* the store was built with use_postgres=True
    _memory_store,    \* pair key -> list of DecisionRecord
    _category_stats,  \* the dict table id -> {category: count}, in insertion order
    _score_cache,     \* pair key -> cached score
    _cache_updated,   \* pair key -> age of the cached score
    fb_last,          \* the last FeedbackStore call and its result
    \* ---- Part 9: the ambiguity detector ----
    amb_in,           \* the ranking and margin the detector is given
    amb_out,          \* the update the ambiguity stage returns, or NoUpdate
    \* ---- Part 10: search_with_domain_fallback ----
    fallback,         \* the call of search_with_domain_fallback and the dict it returns
    \* ---- Part 11: CDCSyncService (indexing/cdc_service.py) ----
    cdc_last,         \* the last sync call: its arguments and the CDCResult it returned
    \* ---- Part 12: admin API (admin_api.py) ----
    now,              \* the wall clock, in seconds
    _pending_tokens,  \* token -> its expires_at and action
    _last_cleanup_time, \* <<>> (None) or <<the time of the last cleanup>>
    issued,           \* history: token -> the time request_cleanup issued it
    confirmed,        \* history: the confirmations whose token was accepted
    admin_last,       \* the last request and its HTTP status
    \* ---- Part 13: MockRetriever (rag/retriever.py) ----
    _tables,          \* MockRetriever._tables: id -> table
    mock_last,        \* the result of the last MockRetriever call
    \* ---- Part 14: OpenRouterEmbeddings.embed_batch (llm/openrouter_embeddings.py) ----
    texts,            \* the texts given to embed_batch
    batch_size,       \* its batch_size
    all_embeddings,   \* the list it builds and returns
    eb_i,             \* i, the start of the current batch (0-based)
    eb_j,             \* texts of the batch handled by the fallback loop
    eb_pc             \* where the call is

graphVars == <<tasks, called, returned, writes, runs, completed, state,
               status, failed, mergeSaw, decision>>

bmVars == <<bm_query, bm_table, bm_score, bm_pc>>

searchVars == <<s_query, max_results, expanded_query, tables_cache,
                name_results, desc_results, keywords_results, scores,
                score_order, results, enable_rerank, llm_reply,
                returned_results, expander_cache, s_error, s_pc>>

storeVars == <<_collections, _inverted_index, _tables_cache, index_calls,
               st_last>>

hashVars == <<hash_in, hash_out>>

fbVars == <<use_postgres, _memory_store, _category_stats, _score_cache,
            _cache_updated, fb_last>>

ambVars == <<amb_in, amb_out>>

fallbackVars == <<fallback>>

cdcVars == <<cdc_last>>

adminVars == <<now, _pending_tokens, _last_cleanup_time, issued, confirmed, admin_last>>

mockVars == <<_tables, mock_last>>

embedVars == <<texts, batch_size, all_embeddings, eb_i, eb_j, eb_pc>>

vars == <<graphVars, bmVars, searchVars, storeVars, hashVars, fbVars, ambVars, fallbackVars, cdcVars, adminVars, mockVars, embedVars>>

\* the variables of all parts but one
exceptGraph  == <<bmVars, searchVars, storeVars, hashVars, fbVars, ambVars, fallbackVars, cdcVars, adminVars, mockVars, embedVars>>
exceptBm     == <<graphVars, searchVars, storeVars, hashVars, fbVars, ambVars, fallbackVars, cdcVars, adminVars, mockVars, embedVars>>
exceptSearch == <<graphVars, bmVars, storeVars, hashVars, fbVars, ambVars, fallbackVars, cdcVars, adminVars, mockVars, embedVars>>
exceptStore  == <<graphVars, bmVars, searchVars, hashVars, fbVars, ambVars, fallbackVars, cdcVars, adminVars, mockVars, embedVars>>
exceptHash   == <<graphVars, bmVars, searchVars, storeVars, fbVars, ambVars, fallbackVars, cdcVars, adminVars, mockVars, embedVars>>
exceptFb     == <<graphVars, bmVars, searchVars, storeVars, hashVars, ambVars, fallbackVars, cdcVars, adminVars, mockVars, embedVars>>
exceptAmb    == <<graphVars, bmVars, searchVars, storeVars, hashVars, fbVars, fallbackVars, cdcVars, adminVars, mockVars, embedVars>>
exceptFallback == <<graphVars, bmVars, searchVars, storeVars, hashVars, fbVars, ambVars, cdcVars, adminVars, mockVars, embedVars>>
\* the variables of all parts but search and its fallback wrapper
exceptSearchFallback == <<graphVars, bmVars, storeVars, hashVars, fbVars, ambVars, cdcVars, adminVars, mockVars, embedVars>>
exceptCdc == <<graphVars, bmVars, searchVars, storeVars, hashVars, fbVars, ambVars, fallbackVars, adminVars, mockVars, embedVars>>
\* the variables of all parts but the store and the sync service over it
exceptStoreCdc == <<graphVars, bmVars, searchVars, hashVars, fbVars, ambVars, fallbackVars, adminVars, mockVars, embedVars>>
exceptAdmin == <<graphVars, bmVars, searchVars, storeVars, hashVars, fbVars, ambVars, fallbackVars, cdcVars, mockVars, embedVars>>
exceptMock == <<graphVars, bmVars, searchVars, storeVars, hashVars, fbVars, ambVars, fallbackVars, cdcVars, adminVars, embedVars>>
\* the variables of all parts but the two retrievers
exceptStoreMock == <<graphVars, bmVars, searchVars, hashVars, fbVars, ambVars, fallbackVars, cdcVars, adminVars, embedVars>>
exceptEmbed == <<graphVars, bmVars, searchVars, storeVars, hashVars, fbVars, ambVars, fallbackVars, cdcVars, adminVars, mockVars>>

-----------------------------------------------------------------------------
(***************************************************************************)
(* Part 1.  The pipeline of graph.py                                       *)
(***************************************************************************)

\* graph.py 114-123: workflow.add_node(...)
Nodes == {"intent", "domains", "owners", "tables", "columns", "merge",
          "rerank", "ambiguity", "decide", "feedback"}

\* langgraph.graph.END as used at graph.py 141
END == "__end__"

\* graph.py 126: workflow.set_entry_point("intent")
EntryPoint == "intent"

\* Mutant of Edges: the columns branch joins one stage late (at rerank).
EdgesLateJoin ==
    { <<"intent", "domains">>, <<"domains", "owners">>,
      <<"owners", "tables">>, <<"owners", "columns">>,
      <<"tables", "merge">>, <<"columns", "rerank">>,
      <<"merge", "rerank">>, <<"rerank", "ambiguity">>,
      <<"ambiguity", "decide">>, <<"decide", "feedback">>,
      <<"feedback", END>> }

\* graph.py 127-141: workflow.add_edge(...)
Edges ==
    { <<"intent", "domains">>, <<"domains", "owners">>,
      <<"owners", "tables">>, <<"owners", "columns">>,
      <<"tables", "merge">>, <<"columns", "merge">>,
      <<"merge", "rerank">>, <<"rerank", "ambiguity">>,
      <<"ambiguity", "decide">>, <<"decide", "feedback">>,
      <<"feedback", END>> }

\* Bound on how often one node may be entered (the graph has no cycle, so the
\* bound is never met by the code; it keeps a mutated graph finite).
MaxRuns == 2

None == "None"

\* state.py 187-230: the AgentState keys the stages exchange
StateKeys == {"canonical_intent", "matched_domains", "matched_owners",
              "matched_tables", "column_search_results", "ambiguity_result",
              "llm_reranked", "error_message"}

\* state.py 233-265: create_initial_state
create_initial_state ==
    [ canonical_intent      |-> None,
      matched_domains       |-> "[]",
      matched_owners        |-> "[]",
      matched_tables        |-> "[]",
      column_search_results |-> "[]",
      ambiguity_result      |-> None,
      llm_reranked          |-> "False",
      error_message         |-> None ]

\* The forms state["ambiguity_result"] can take after the ambiguity stage:
\* an AmbiguityResult object (ambiguous or not) or, as the schema at
\* state.py 221 declares it, a plain dict.
AmbiguityValues == {"obj:NONE", "obj:TABLE_AMBIGUOUS", "dict:NONE",
                    "dict:TABLE_AMBIGUOUS"}

\* The partial updates a stage implementation (src/nodes/*, not in the
\* source tree) can return when it succeeds.
NodeUpdates(n) ==
    CASE n = "intent"    -> { [k \in {"canonical_intent"} |-> "intent"] }
      [] n = "domains"   -> { [k \in {"matched_domains"} |-> "domains"] }
      [] n = "owners"    -> { [k \in {"matched_owners"} |-> "owners"] }
      [] n = "tables"    -> { [k \in {"matched_tables"} |-> "tables"] }
      [] n = "columns"   -> { [k \in {"column_search_results"} |-> "columns"] }
      [] n = "merge"     -> { [k \in {"matched_tables"} |-> "merged"] }
      [] n = "rerank"    -> { [k \in {"llm_reranked"} |-> "False"],
                              [k \in {"matched_tables", "llm_reranked"} |->
                                  IF k = "llm_reranked" THEN "True"
                                  ELSE "reranked"] }
      [] n = "ambiguity" -> { [k \in {"ambiguity_result"} |-> a] :
                                  a \in AmbiguityValues }
      [] n = "feedback"  -> { [k \in {} |-> None] }
      [] OTHER           -> { [k \in {} |-> None] }

\* The partial update of a stage implementation that failed internally and
\* caught the failure itself: the error field set, no output.
ErrorUpdate(n) == [k \in {"error_message"} |-> n]

\* graph.py 21-66 and 94-97: a stage wrapper is entered.  It awaits the stage
\* implementation; the state it reads is the state of the superstep's start.
Call(n) ==
    /\ status = "running"
    /\ n \in tasks \ called
    /\ runs[n] < MaxRuns
    /\ called' = called \cup {n}
    /\ runs' = [runs EXCEPT ![n] = @ + 1]
    /\ mergeSaw' = IF n = "merge"
                   THEN [tables  |-> state.matched_tables,
                         columns |-> state.column_search_results]
                   ELSE mergeSaw
    /\ UNCHANGED <<tasks, returned, writes, completed, state, status, failed,
                   decision>>

\* graph.py 21-66 and 94-97: `return await _impl(state)`: the wrapper hands
\* back whatever the implementation returned, a result or an error update.
Return(n) ==
    /\ status = "running"
    /\ n \in called \ returned
    /\ n # "decide"
    /\ \E ok \in BOOLEAN :
         \E u \in (IF ok THEN NodeUpdates(n) ELSE {ErrorUpdate(n)}) :
            /\ writes' = [writes EXCEPT ![n] = u]
            /\ failed' = IF ok THEN failed ELSE failed \cup {n}
    /\ returned' = returned \cup {n}
    /\ completed' = completed \cup {n}
    /\ UNCHANGED <<tasks, called, runs, state, status, mergeSaw, decision>>

\* graph.py 21-97: no wrapper has a try/except, so an exception raised by the
\* awaited implementation leaves the wrapper; the graph run re-raises it and
\* the request ends without reaching END.
Raise(n) ==
    /\ status = "running"
    /\ n \in called \ returned
    /\ failed' = failed \cup {n}
    /\ status' = "aborted"
    /\ UNCHANGED <<tasks, called, returned, writes, runs, completed, state,
                   mergeSaw, decision>>

\* graph.py 76-88: the ambiguity entry decide adds to the base decision.
\* `ambiguity and hasattr(ambiguity, "is_ambiguous") and ambiguity.is_ambiguous`
\* holds only of an object whose is_ambiguous attribute is true.
AmbiguityEntry(ambiguity) ==
    IF ambiguity = "obj:TABLE_AMBIGUOUS"
    THEN [type |-> "TABLE_AMBIGUOUS", is_ambiguous |-> TRUE]
    ELSE [type |-> "NONE", is_ambiguous |-> FALSE]

\* graph.py 69-91: decide
decide ==
    /\ status = "running"
    /\ "decide" \in called \ returned
    /\ decision' = [ambiguity    |-> AmbiguityEntry(state.ambiguity_result),
                    llm_reranked |-> state.llm_reranked]
    /\ writes' = [writes EXCEPT !["decide"] =
                     [k \in {"llm_reranked"} |-> state.llm_reranked]]
    /\ returned' = returned \cup {"decide"}
    /\ completed' = completed \cup {"decide"}
    /\ UNCHANGED <<tasks, called, runs, state, status, failed, mergeSaw>>

\* state.py 187-230: no key of AgentState carries a reducer, so a key takes
\* at most one value per superstep.
Conflict ==
    \E n \in tasks, m \in tasks :
        n # m /\ (DOMAIN writes[n]) \cap (DOMAIN writes[m]) # {}

Written(k) == { n \in tasks : k \in DOMAIN writes[n] }

ApplyWrites ==
    [k \in StateKeys |->
        IF Written(k) # {} THEN writes[CHOOSE n \in Written(k) : TRUE][k]
        ELSE state[k]]

Successors(ns) == { e[2] : e \in { d \in Edges : d[1] \in ns } }

\* graph.py 156/162-165: the compiled graph runs in supersteps: when every
\* node of the step has returned, their updates are applied and the nodes
\* their edges lead to are scheduled; the run ends when only END is left.
Superstep ==
    /\ status = "running"
    /\ tasks # {}
    /\ returned = tasks
    /\ IF Conflict
       THEN /\ status' = "aborted"
            /\ UNCHANGED <<tasks, called, returned, writes, state>>
       ELSE /\ state' = ApplyWrites
            /\ tasks' = Successors(tasks) \ {END}
            /\ called' = {}
            /\ returned' = {}
            /\ writes' = [n \in Nodes |-> [k \in {} |-> None]]
            /\ status' = IF Successors(tasks) \ {END} = {} THEN "done"
                         ELSE "running"
    /\ UNCHANGED <<runs, completed, failed, mergeSaw, decision>>

GraphStart ==
    /\ tasks = {EntryPoint}
    /\ called = {}
    /\ returned = {}
    /\ writes = [n \in Nodes |-> [k \in {} |-> None]]
    /\ runs = [n \in Nodes |-> 0]
    /\ completed = {}
    /\ state = create_initial_state
    /\ status = "running"
    /\ failed = {}
    /\ mergeSaw = None
    /\ decision = None

\* Part 1 at rest, under the specifications of the other parts.
GraphOff ==
    /\ tasks = {} /\ called = {} /\ returned = {}
    /\ writes = [n \in Nodes |-> [k \in {} |-> None]]
    /\ runs = [n \in Nodes |-> 0]
    /\ completed = {} /\ state = create_initial_state /\ status = "off"
    /\ failed = {} /\ mergeSaw = None /\ decision = None

-----------------------------------------------------------------------------
(***************************************************************************)
(* Claims about the pipeline                                               *)
(***************************************************************************)

\* The order the stages are to run in: a stage of a lower rank precedes every
\* stage of a higher rank; tables and columns share a rank.
StageRank(n) ==
    CASE n = "intent"    -> 1
      [] n = "domains"   -> 2
      [] n = "owners"    -> 3
      [] n = "tables"    -> 4
      [] n = "columns"   -> 4
      [] n = "merge"     -> 5
      [] n = "rerank"    -> 6
      [] n = "ambiguity" -> 7
      [] n = "decide"    -> 8
      [] n = "feedback"  -> 9

Predecessors(n) == { m \in Nodes : StageRank(m) < StageRank(n) }

Resolved(n) == n \in completed \/ n \in failed

\* C2: merge is a barrier: it is not entered before both branches have
\* resolved (completed or failed); once both branches have resolved and the
\* request is over, merge has run exactly once; and what merge read holds
\* the output of every branch that produced one.
C2_MergeBarrier ==
    /\ runs["merge"] > 0 => Resolved("tables") /\ Resolved("columns")
    /\ runs["merge"] <= 1
    /\ (status # "running" /\ Resolved("tables") /\ Resolved("columns"))
          => runs["merge"] = 1
    /\ runs["merge"] > 0 =>
          /\ "tables" \notin failed => mergeSaw.tables = "tables"
          /\ "columns" \notin failed => mergeSaw.columns = "columns"

\* The part of C2 that the superstep execution does give: merge is never
\* entered before both branches returned, nor twice, and it reads the output
\* of every branch that produced one.
MergeNeverEarly ==
    /\ runs["merge"] > 0 => {"tables", "columns"} \subseteq completed
    /\ runs["merge"] <= 1
    /\ runs["merge"] > 0 =>
          /\ "tables" \notin failed => mergeSaw.tables = "tables"
          /\ "columns" \notin failed => mergeSaw.columns = "columns"

BeforeDecide == { n \in Nodes : StageRank(n) < StageRank("decide") }

\* C3: when a stage before decide fails internally, no exception crosses the
\* stage boundary: the request is not aborted, the stage returns an update
\* with the error field set, and a request that ends has run decide.
C3_FailureContained ==
    \A n \in failed \cap BeforeDecide :
        /\ status # "aborted"
        /\ n \in completed
        /\ n \in returned => "error_message" \in DOMAIN writes[n]
        /\ status = "done" => "decide" \in completed

\* C39: every request terminates: every run of the pipeline eventually
\* reaches the end state after the feedback stage (the stage graph has no
\* cycle, and no stage waits on an edge that never fires).
C39_ReachesEnd ==
    <>(status = "done" /\ "feedback" \in completed)

\* the forms of an ambiguous result the ambiguity stage can store
AmbiguousValues == { a \in AmbiguityValues : a \in {"obj:TABLE_AMBIGUOUS", "dict:TABLE_AMBIGUOUS"} }

\* C22: the output of decide carries an ambiguity entry that has
\* is_ambiguous=True and the detector's type exactly when the ambiguity stage
\* stored an ambiguous result in the state, as an object or as the dict the
\* schema declares, and is {type NONE, is_ambiguous False} otherwise.
C22_AmbiguitySurfaced ==
    "decide" \in returned =>
        /\ decision.ambiguity.is_ambiguous = (state.ambiguity_result \in AmbiguousValues)
        /\ decision.ambiguity.is_ambiguous => decision.ambiguity.type = "TABLE_AMBIGUOUS"
        /\ ~decision.ambiguity.is_ambiguous =>
              decision.ambiguity = [type |-> "NONE", is_ambiguous |-> FALSE]

-----------------------------------------------------------------------------
(***************************************************************************)
(* Part 2.  _tokenize and _compute_bm25_score                              *)
(*                                                                         *)
(* A text is a sequence of one-character strings.  A score is a fraction   *)
(* <<num, den>> with den > 0, so that matches / len(query_tokens) is kept  *)
(* exactly.                                                                *)
(***************************************************************************)

\* optimized_retriever.py 150: text.lower()
Lower(c) ==
    CASE c = "A" -> "a"
      [] c = "B" -> "b"
      [] OTHER   -> c

\* optimized_retriever.py 152: the characters of the class [\s_\-\.]
Separators == {" ", "_", "-", "."}

RECURSIVE SplitRuns(_, _, _)
\* optimized_retriever.py 152: re.split(r'[\s_\-\.]+', text): the pieces
\* between runs of separators (an empty piece at either end included).
SplitRuns(text, cur, acc) ==
    IF text = <<>> THEN Append(acc, cur)
    ELSE IF Head(text) \in Separators
         THEN IF Len(text) > 1 /\ text[2] \in Separators
              THEN SplitRuns(Tail(text), cur, acc)
              ELSE SplitRuns(Tail(text), <<>>, Append(acc, cur))
         ELSE SplitRuns(Tail(text), Append(cur, Head(text)), acc)

\* optimized_retriever.py 148-154: _tokenize
_tokenize(text) ==
    SelectSeq(SplitRuns([i \in 1..Len(text) |-> Lower(text[i])], <<>>, <<>>),
              LAMBDA t : Len(t) >= 2)

\* dict.get(key, default)
Get(d, key, default) == IF key \in DOMAIN d THEN d[key] ELSE default

Range(f) == { f[i] : i \in DOMAIN f }

Times(seq, n) == IF n = 3 THEN seq \o seq \o seq
                 ELSE IF n = 2 THEN seq \o seq ELSE seq

RECURSIVE KeywordTokens(_)
\* optimized_retriever.py 191-192: for kw in keywords: extend(tokenize(kw)*2)
KeywordTokens(kws) ==
    IF kws = <<>> THEN <<>>
    ELSE Times(_tokenize(Head(kws)), 2) \o KeywordTokens(Tail(kws))

\* optimized_retriever.py 187-192: the weighted document tokens
DocTokens(table) ==
    Times(_tokenize(Get(table, "name", <<>>)), 3)
      \o Times(_tokenize(Get(table, "display_name", <<>>)), 2)
      \o _tokenize(Get(table, "description", <<>>))
      \o KeywordTokens(Get(table, "keywords", <<>>))

RECURSIVE CountMatches(_, _)
\* optimized_retriever.py 198: sum(1 for qt in query_tokens if qt in doc_tokens)
CountMatches(query_tokens, doc_tokens) ==
    IF query_tokens = <<>> THEN 0
    ELSE (IF Head(query_tokens) \in Range(doc_tokens) THEN 1 ELSE 0)
           + CountMatches(Tail(query_tokens), doc_tokens)

\* Mutant of _compute_bm25_score: the keywords left out of the document.
Bm25NoKeywords(query, table) ==
    LET query_tokens == _tokenize(query)
        doc_tokens   == Times(_tokenize(Get(table, "name", <<>>)), 3)
                          \o Times(_tokenize(Get(table, "display_name", <<>>)), 2)
                          \o _tokenize(Get(table, "description", <<>>))
    IN  IF query_tokens = <<>> THEN <<0, 1>>
        ELSE IF doc_tokens = <<>> THEN <<0, 1>>
        ELSE <<CountMatches(query_tokens, doc_tokens), Len(query_tokens)>>

\* Mutant of _compute_bm25_score: the matches counted over distinct tokens.
Bm25SetMatches(query, table) ==
    LET query_tokens == _tokenize(query)
        doc_tokens   == DocTokens(table)
    IN  IF query_tokens = <<>> THEN <<0, 1>>
        ELSE IF doc_tokens = <<>> THEN <<0, 1>>
        ELSE <<Cardinality(Range(query_tokens) \cap Range(doc_tokens)),
               Len(query_tokens)>>

\* optimized_retriever.py 180-199: _compute_bm25_score
_compute_bm25_score(query, table) ==
    LET query_tokens == _tokenize(query)
        doc_tokens   == DocTokens(table)
    IN  IF query_tokens = <<>> THEN <<0, 1>>
        ELSE IF doc_tokens = <<>> THEN <<0, 1>>
        ELSE <<CountMatches(query_tokens, doc_tokens), Len(query_tokens)>>

\* ---- inputs ----

\* Largest number of words joined into a query.
MaxQueryWords == 3

Words == { <<>>, <<"a">>, <<"a", "b">>, <<"B", "a">> }

QuerySeparators == {" ", "_"}

RECURSIVE QueriesOf(_)
QueriesOf(n) ==
    IF n = 0 THEN { <<>> }
    ELSE IF n = 1 THEN Words
    ELSE Words \cup { q \o <<sp>> \o w :
                        q \in QueriesOf(n - 1) \ {<<>>}, sp \in QuerySeparators,
                        w \in Words }
                  \cup { <<sp>> \o w : sp \in QuerySeparators, w \in Words }

BmQueries == QueriesOf(MaxQueryWords)

BmTables ==
    { [name |-> n, display_name |-> d, description |-> s, keywords |-> k] :
        n \in { <<>>, <<"a", "b">> },
        d \in { <<>>, <<"B", "a">> },
        s \in { <<>>, <<"a", "b", " ", "a">> },
        k \in { <<>>, << <<"b", "a">> >>,
                << <<"A", "b", ".", "b", "a">>, <<"a">> >> } }

BmStart ==
    /\ bm_query \in BmQueries
    /\ bm_table \in BmTables
    /\ bm_score = None
    /\ bm_pc = "input"

BmOff ==
    /\ bm_query = <<>> /\ bm_table = None /\ bm_score = None /\ bm_pc = "off"

\* optimized_retriever.py 180-199: one call of _compute_bm25_score
ComputeBm25 ==
    /\ bm_pc = "input"
    /\ bm_score' = _compute_bm25_score(bm_query, bm_table)
    /\ bm_pc' = "scored"
    /\ UNCHANGED <<bm_query, bm_table>>

-----------------------------------------------------------------------------
(***************************************************************************)
(* Claims about _compute_bm25_score                                        *)
(***************************************************************************)

\* Tokens of the document as the claim names them: those of the name, the
\* display name, the description and every keyword.
DocTokenSet(table) ==
    Range(_tokenize(table.name)) \cup Range(_tokenize(table.display_name))
      \cup Range(_tokenize(table.description))
      \cup UNION { Range(_tokenize(table.keywords[i])) :
                     i \in DOMAIN table.keywords }

\* C5: the score is 0 when the query yields no token, exactly 1 when every
\* query token is among the document tokens, and always within [0, 1].
C5_Bm25Range ==
    bm_pc = "scored" =>
      LET qt == _tokenize(bm_query) IN
        /\ bm_score[2] > 0
        /\ 0 <= bm_score[1] /\ bm_score[1] <= bm_score[2]
        /\ qt = <<>> => bm_score[1] = 0
        /\ (qt # <<>> /\ Range(qt) \subseteq DocTokenSet(bm_table))
              => bm_score[1] = bm_score[2]

\* C5 witness: a query of several tokens, one of them found only among the
\* keywords, scored 1.
C5_Witness ==
    /\ bm_pc = "scored"
    /\ Len(_tokenize(bm_query)) >= 2
    /\ bm_score[1] = bm_score[2]
    /\ \E t \in Range(_tokenize(bm_query)) :
          t \notin Range(_tokenize(bm_table.name))
                     \cup Range(_tokenize(bm_table.display_name))
                     \cup Range(_tokenize(bm_table.description))

-----------------------------------------------------------------------------
(***************************************************************************)
(* Part 3.  OptimizedRetriever.search: fusion ranking                      *)
(*                                                                         *)
(* A cosine distance is one of 0, 1, 2; a similarity 1 - d/2 is kept as    *)
(* its numerator over SimDen; the weights are kept in hundredths; a        *)
(* combined score is a fraction <<num, den>>.                              *)
(***************************************************************************)

\* optimized_retriever.py 77-80 (in hundredths)
WEIGHT_NAME == 30
WEIGHT_DESCRIPTION == 20
WEIGHT_KEYWORDS == 25
WEIGHT_BM25 == 25
WeightDen == 100

\* optimized_retriever.py 350: distance / 2.0
SimDen == 2
Distances == {0, 1, 2}

\* The catalog the collections were filled from.
Str_ab == <<"a", "b">>
Str_ba == <<"b", "a">>
Str_bb == <<"b", "b">>
Catalog(id) ==
    [ id           |-> id,
      name         |-> CASE id = 1 -> Str_ab
                         [] id = 2 -> Str_ba
                         [] id = 3 -> <<"a", "_", "b">>
                         [] id = 5 -> Str_ab
                         [] OTHER  -> Str_bb,
      display_name |-> IF id = 5 THEN <<"A", "b", " ", "b", "a">> ELSE <<>>,
      description  |-> IF id = 4 THEN <<"a", "b", ".", "b", "a">> ELSE <<>>,
      keywords     |-> IF id = 2 THEN << Str_ab >> ELSE <<>>,
      domain       |-> IF id <= 2 THEN "d1" ELSE "d2",
      owner_name   |-> <<>> ]

\* optimized_retriever.py 241-247: the metadata stored with every vector
Metadata(table) ==
    [ k \in {"id", "name", "display_name", "domain", "owner_name"} |-> table[k] ]

\* optimized_retriever.py 350: similarity = 1.0 - (distance / 2.0)
Similarity(distance) == SimDen - distance

Max(a, b) == IF a >= b THEN a ELSE b

\* Mutant of ProcessHit: the smaller similarity kept.
ProcessHitMin(acc, hit, score_key) ==
    LET table_id == hit.id
        seen     == table_id \in DOMAIN acc.scores
        entry    == IF seen THEN acc.scores[table_id]
                    ELSE [name |-> 0, description |-> 0, keywords |-> 0,
                          bm25 |-> <<0, 1>>, metadata |-> hit.metadata]
        updated  == [entry EXCEPT ![score_key] =
                        IF Similarity(hit.distance) <= @
                        THEN Similarity(hit.distance) ELSE @]
    IN  [scores |-> [i \in DOMAIN acc.scores \cup {table_id} |->
                        IF i = table_id THEN updated ELSE acc.scores[i]],
         order  |-> IF seen THEN acc.order ELSE Append(acc.order, table_id)]

\* optimized_retriever.py 338-351: the body of the loop of process_results
ProcessHit(acc, hit, score_key) ==
    LET table_id == hit.id
        seen     == table_id \in DOMAIN acc.scores
        entry    == IF seen THEN acc.scores[table_id]
                    ELSE [name |-> 0, description |-> 0, keywords |-> 0,
                          bm25 |-> <<0, 1>>, metadata |-> hit.metadata]
        updated  == [entry EXCEPT ![score_key] =
                        Max(Similarity(hit.distance), @)]
    IN  [scores |-> [i \in DOMAIN acc.scores \cup {table_id} |->
                        IF i = table_id THEN updated ELSE acc.scores[i]],
         order  |-> IF seen THEN acc.order ELSE Append(acc.order, table_id)]

RECURSIVE process_results(_, _, _)
\* optimized_retriever.py 335-351: process_results
process_results(acc, hits, score_key) ==
    IF hits = <<>> THEN acc
    ELSE process_results(ProcessHit(acc, Head(hits), score_key), Tail(hits),
                         score_key)

\* optimized_retriever.py 359: self._tables_cache.get(table_id, metadata)
CachedOrMetadata(cache, table_id, metadata) ==
    IF table_id \in cache THEN Catalog(table_id) ELSE metadata

\* optimized_retriever.py 364-369: the combined score
Combine(s) ==
    << (WEIGHT_NAME * s.name + WEIGHT_DESCRIPTION * s.description
          + WEIGHT_KEYWORDS * s.keywords) * s.bm25[2]
         + WEIGHT_BM25 * s.bm25[1] * SimDen,
       WeightDen * SimDen * s.bm25[2] >>

\* optimized_retriever.py 332-369: collect the scores of the three views,
\* then the bm25 score of the expanded query, then the combined score.
FuseScores(nameHits, descHits, kwHits, expanded, cache) ==
    LET a0 == [scores |-> [i \in {} |-> 0], order |-> <<>>]
        a1 == process_results(a0, nameHits, "name")
        a2 == process_results(a1, descHits, "description")
        a3 == process_results(a2, kwHits, "keywords")
        withBm25(s, i) ==
            [s EXCEPT !.bm25 =
                _compute_bm25_score(expanded,
                                    CachedOrMetadata(cache, i, s.metadata))]
    IN  [scores |-> [i \in DOMAIN a3.scores |->
                        LET s == withBm25(a3.scores[i], i)
                        IN  [name |-> s.name, description |-> s.description,
                             keywords |-> s.keywords, bm25 |-> s.bm25,
                             metadata |-> s.metadata, combined |-> Combine(s)]],
         order  |-> a3.order]

\* a >= b for fractions with positive denominators
FracGeq(a, b) == a[1] * b[2] >= b[1] * a[2]
FracGt(a, b)  == a[1] * b[2] > b[1] * a[2]

RECURSIVE InsertDesc(_, _, _)
\* place x before the first element of the descending list whose key is
\* smaller: elements of equal key keep their order (list.sort is stable)
InsertDesc(sorted, x, key) ==
    IF sorted = <<>> THEN <<x>>
    ELSE IF FracGt(key[x], key[Head(sorted)]) THEN <<x>> \o sorted
    ELSE <<Head(sorted)>> \o InsertDesc(Tail(sorted), x, key)

RECURSIVE SortedDesc(_, _)
\* optimized_retriever.py 372: sorted(scores.keys(), key=combined, reverse=True)
SortedDesc(ids, key) ==
    IF ids = <<>> THEN <<>>
    ELSE InsertDesc(SortedDesc(SubSeq(ids, 1, Len(ids) - 1), key),
                    ids[Len(ids)], key)

Min(a, b) == IF a <= b THEN a ELSE b

\* Mutant of BuildResults: the list cut before it is sorted.
BuildResultsCutFirst(sc, order, maxResults) ==
    LET key == [i \in DOMAIN sc |-> sc[i].combined]
        cut == SortedDesc(SubSeq(order, 1, Min(maxResults, Len(order))), key)
    IN  [j \in 1..Len(cut) |-> [id |-> cut[j], score |-> sc[cut[j]].combined]]

\* optimized_retriever.py 371-399: sort by combined score, keep max_results
BuildResults(sc, order, maxResults) ==
    LET key        == [i \in DOMAIN sc |-> sc[i].combined]
        sorted_ids == SortedDesc(order, key)
        top        == SubSeq(sorted_ids, 1, Min(maxResults, Len(sorted_ids)))
    IN  [j \in 1..Len(top) |-> [id |-> top[j], score |-> sc[top[j]].combined]]

-----------------------------------------------------------------------------
(***************************************************************************)
(* Part 4.  OptimizedRetriever._rerank_with_llm                            *)
(*                                                                         *)
(* Indices are 0-based as in the code; results[i + 1] is Python's          *)
(* results[i].                                                             *)
(***************************************************************************)

RECURSIVE AddPicksRepeated(_, _, _)
\* Mutant of AddPicks: a pick already placed is appended again.
AddPicksRepeated(placed, picks, n) ==
    IF picks = <<>> THEN placed
    ELSE LET idx == Head(picks)
         IN  AddPicksRepeated(IF 0 <= idx /\ idx < n
                              THEN Append(placed, idx) ELSE placed,
                              Tail(picks), n)

RECURSIVE AddPicks(_, _, _)
\* optimized_retriever.py 490-493 and 503-506: append every pick that is in
\* range and not yet placed
AddPicks(placed, picks, n) ==
    IF picks = <<>> THEN placed
    ELSE LET idx == Head(picks)
         IN  AddPicks(IF 0 <= idx /\ idx < n /\ idx \notin Range(placed)
                      THEN Append(placed, idx) ELSE placed,
                      Tail(picks), n)

RECURSIVE AddOriginalTopAll(_, _, _)
\* Mutant of AddOriginalTop: every unplaced candidate of the first five is
\* added, however long the list already is.
AddOriginalTopAll(placed, i, n) ==
    IF i >= Min(5, n) THEN placed
    ELSE AddOriginalTopAll(IF i \notin Range(placed)
                           THEN Append(placed, i) ELSE placed,
                           i + 1, n)

RECURSIVE AddOriginalTop(_, _, _)
\* optimized_retriever.py 497-500: for i in range(min(5, len(results))):
\*     if i not in seen and len(reranked) < 5: append
AddOriginalTop(placed, i, n) ==
    IF i >= Min(5, n) THEN placed
    ELSE AddOriginalTop(IF i \notin Range(placed) /\ Len(placed) < 5
                        THEN Append(placed, i) ELSE placed,
                        i + 1, n)

RECURSIVE AddRemaining(_, _, _)
\* optimized_retriever.py 509-511: every result not placed, in original order
AddRemaining(placed, i, n) ==
    IF i >= n THEN placed
    ELSE AddRemaining(IF i \notin Range(placed) THEN Append(placed, i)
                      ELSE placed,
                      i + 1, n)

Take(seq, k) == SubSeq(seq, 1, Min(k, Len(seq)))
Drop(seq, k) == SubSeq(seq, Min(k, Len(seq)) + 1, Len(seq))

\* optimized_retriever.py 486-513: the interleaved order, as indices
InterleavedOrder(llm_order, n) ==
    LET p1 == AddPicks(<<>>, Take(llm_order, 3), n)
        p2 == AddOriginalTop(p1, 0, n)
        p3 == AddPicks(p2, Drop(llm_order, 3), n)
    IN  AddRemaining(p3, 0, n)

\* The replies of the rerank collaborator: none (it is not asked: a short
\* list at 420, no API key at 427), an error (status at 470, a timeout or
\* another exception at 515, no parsable array at 480), or <<"order", l>>,
\* the parsed list of indices (481).
NoReply == <<"none">>
IsOrder(reply) == reply[1] = "order"

\* optimized_retriever.py 407-519: _rerank_with_llm
_rerank_with_llm(res, reply) ==
    IF Len(res) <= 3 THEN res
    ELSE IF ~IsOrder(reply) THEN res
    ELSE LET idx == InterleavedOrder(reply[2], Len(res))
         IN  [j \in 1..Len(idx) |-> res[idx[j] + 1]]

-----------------------------------------------------------------------------
(***************************************************************************)
(* Part 5.  search as a whole: expansion, the three collection queries,    *)
(* fusion, rerank                                                          *)
(***************************************************************************)

Whitespace == {" "}

RECURSIVE LStrip(_)
LStrip(text) ==
    IF text # <<>> /\ Head(text) \in Whitespace THEN LStrip(Tail(text))
    ELSE text

RECURSIVE RStrip(_)
RStrip(text) ==
    IF text # <<>> /\ text[Len(text)] \in Whitespace
    THEN RStrip(SubSeq(text, 1, Len(text) - 1))
    ELSE text

\* llm_query_expander.py 99: cache_key = query.lower().strip()
CacheKey(query) ==
    RStrip(LStrip([i \in 1..Len(query) |-> Lower(query[i])]))

\* A cached value that is not a string: result.get("expanded") was null, a
\* number, a list or an object (llm_query_expander.py 164-166).
IllTyped == <<"<not a str>">>

\* The replies of the expansion collaborator.
\*   "status"    : response.status_code != 200          (line 154)
\*   "exception" : timeout, transport or JSON error      (line 170)
\*   "nomatch"   : no {...} in the content               (line 161)
\*   "nokey"     : an object without "expanded"          (line 164)
\*   "illtyped"  : "expanded" is not a string            (line 164)
\*   <<"text",t>>: "expanded" is the string t            (line 164)
ExpansionSuffix == <<" ", "b", "a">>
ExpandReplies(query) ==
    { <<"status">>, <<"exception">>, <<"nomatch">>, <<"nokey">>,
      <<"illtyped">>, <<"text", query \o ExpansionSuffix>> }

\* llm_query_expander.py 95-173: expand_query, with no learned expansions
\* (learned_addition = "") and an API key set.  The result: the new cache,
\* whether an exception left the call, and the returned text.
\*   103-104  a cache hit returns cache[key] + "" outside any try: a value
\*            that is not a string raises TypeError
\*   164-168  the reply's value is stored in the cache before it is joined
\*            to a string; a TypeError of the join is caught at 170 and the
\*            query is returned at 173, the stored value stays
ExpandQuery(cache, query, reply) ==
    LET cache_key == CacheKey(query) IN
    IF cache_key \in DOMAIN cache
    THEN IF cache[cache_key] = IllTyped
         THEN [cache |-> cache, raised |-> TRUE, text |-> <<>>]
         ELSE [cache |-> cache, raised |-> FALSE, text |-> cache[cache_key]]
    ELSE IF reply[1] \in {"status", "exception", "nomatch"}
         THEN [cache |-> cache, raised |-> FALSE, text |-> query]
         ELSE LET expanded == IF reply[1] = "text" THEN reply[2]
                              ELSE IF reply[1] = "illtyped" THEN IllTyped
                              ELSE query
              IN  [cache  |-> [k \in DOMAIN cache \cup {cache_key} |->
                                  IF k = cache_key THEN expanded ELSE cache[k]],
                   raised |-> FALSE,
                   text   |-> IF expanded = IllTyped THEN query ELSE expanded]

\* ---- what the collections answer ----

HitOf(id, d) == [id |-> id, distance |-> d, metadata |-> Metadata(Catalog(id))]

RECURSIVE Ranking(_)
\* the hits of one query, nearest first (ties by id); each id at most once
Ranking(f) ==
    IF DOMAIN f = {} THEN <<>>
    ELSE LET best == CHOOSE i \in DOMAIN f :
                        \A j \in DOMAIN f :
                            f[i] < f[j] \/ (f[i] = f[j] /\ i <= j)
         IN  <<HitOf(best, f[best])>>
               \o Ranking([j \in DOMAIN f \ {best} |-> f[j]])

RankingsOver(ids) ==
    { Ranking(f) : f \in UNION { [S -> Distances] : S \in SUBSET ids } }

\* The tables of the inputs in which all three views answer.
FusionIds == {1, 2}
\* Number of tables in the inputs in which only the name view answers.
MaxCandidates == 4
\* Largest max_results passed to search.
MaxResultsArg == 4

\* Inputs of the fusion: every answer of all three views over a few tables,
\* and every answer of the name view alone over more tables.
FusionHits ==
    { <<n, d, k>> : n \in RankingsOver(FusionIds),
                    d \in RankingsOver(FusionIds),
                    k \in RankingsOver(FusionIds) }
      \cup { <<n, <<>>, <<>> >> : n \in RankingsOver(1..MaxCandidates) }

\* Inputs of the whole search: a few answers.
FlowHits ==
    { <<n, d, k>> : n \in RankingsOver(1..2),
                    d \in { <<>>, <<HitOf(2, 0)>> },
                    k \in { <<>>, <<HitOf(1, 1)>> } }
      \cup { << <<HitOf(1, 0), HitOf(2, 0), HitOf(3, 1), HitOf(4, 2)>>,
                <<>>, <<>> >> }

Views == {"name", "description", "keywords"}

\* optimized_retriever.py 296: search is called
SearchCall(queries) ==
    /\ s_pc = "idle"
    /\ \E q \in queries, m \in 1..MaxResultsArg :
          /\ s_query' = q
          /\ max_results' = m
    /\ s_pc' = "called"
    /\ UNCHANGED <<expanded_query, tables_cache, name_results, desc_results,
                   keywords_results, scores, score_order, results,
                   enable_rerank, llm_reply, returned_results, expander_cache,
                   s_error>>

\* optimized_retriever.py 299:
\*   expanded_query = await expand_query_llm(query) if enable_expansion else query
SearchExpand ==
    /\ s_pc = "called"
    /\ \E enable_expansion \in BOOLEAN :
         IF ~enable_expansion
         THEN /\ expanded_query' = s_query
              /\ s_pc' = "expanded"
              /\ UNCHANGED <<expander_cache, s_error>>
         ELSE \E reply \in ExpandReplies(s_query) :
                LET r == ExpandQuery(expander_cache, s_query, reply) IN
                  /\ expander_cache' = r.cache
                  /\ expanded_query' = r.text
                  /\ s_pc' = IF r.raised THEN "raised" ELSE "expanded"
                  /\ s_error' = IF r.raised THEN "TypeError in expand_query"
                                ELSE None
    /\ UNCHANGED <<s_query, max_results, tables_cache, name_results,
                   desc_results, keywords_results, scores, score_order,
                   results, enable_rerank, llm_reply, returned_results>>

\* optimized_retriever.py 303-399: the three collection queries, the fusion
\* and the result list, with no suspension in between.  A query that raises
\* is not caught (311-330 stand in no try).
SearchFusion(hitFamily) ==
    /\ s_pc = "expanded"
    /\ \/ \E h \in hitFamily :
            /\ \A v \in 1..3 : Len(h[v]) <= 3 * max_results
            /\ name_results' = h[1]
            /\ desc_results' = h[2]
            /\ keywords_results' = h[3]
            /\ LET f == FuseScores(h[1], h[2], h[3], expanded_query,
                                   tables_cache)
               IN  /\ scores' = f.scores
                   /\ score_order' = f.order
                   /\ results' = BuildResults(f.scores, f.order, max_results)
            /\ s_pc' = "fused"
            /\ s_error' = None
       \/ \E v \in Views :
            /\ s_error' = v
            /\ s_pc' = "raised"
            /\ UNCHANGED <<name_results, desc_results, keywords_results,
                           scores, score_order, results>>
    /\ UNCHANGED <<s_query, max_results, expanded_query, tables_cache,
                   enable_rerank, llm_reply, returned_results, expander_cache>>

\* optimized_retriever.py 401-405:
\*   if enable_rerank and len(results) > 1: results = await _rerank_with_llm()
\*   return results
SearchRerank(replies) ==
    /\ s_pc = "fused"
    /\ \E er \in BOOLEAN :
         /\ enable_rerank' = er
         /\ IF er /\ Len(results) > 1
            THEN \E reply \in (IF Len(results) <= 3 THEN {NoReply}
                               ELSE replies \cup {NoReply}) :
                   /\ llm_reply' = reply
                   /\ returned_results' = _rerank_with_llm(results, reply)
            ELSE /\ llm_reply' = NoReply
                 /\ returned_results' = results
    /\ s_pc' = "returned"
    /\ UNCHANGED <<s_query, max_results, expanded_query, tables_cache,
                   name_results, desc_results, keywords_results, scores,
                   score_order, results, expander_cache, s_error>>

\* the caller has taken the result (or the exception): the call's locals are
\* gone, the retriever and the expander singleton stay for the next query
SearchDone ==
    /\ s_pc \in {"returned", "raised"}
    /\ s_pc' = "idle"
    /\ s_query' = <<>> /\ max_results' = 0 /\ expanded_query' = <<>>
    /\ name_results' = <<>> /\ desc_results' = <<>> /\ keywords_results' = <<>>
    /\ scores' = [i \in {} |-> 0] /\ score_order' = <<>>
    /\ results' = <<>> /\ returned_results' = <<>>
    /\ llm_reply' = NoReply /\ enable_rerank' = FALSE
    /\ s_error' = None
    /\ UNCHANGED <<tables_cache, expander_cache>>

SearchOff ==
    /\ s_query = <<>> /\ max_results = 0 /\ expanded_query = <<>>
    /\ tables_cache = {}
    /\ name_results = <<>> /\ desc_results = <<>> /\ keywords_results = <<>>
    /\ scores = [i \in {} |-> 0] /\ score_order = <<>>
    /\ results = <<>> /\ enable_rerank = FALSE /\ llm_reply = NoReply
    /\ returned_results = <<>> /\ expander_cache = [k \in {} |-> <<>>]
    /\ s_error = None /\ s_pc = "off"

\* ---- the fusion on its own: search from line 303 on ----

FusionQuery == <<"a", "b", " ", "b", "a">>

FusionStart ==
    /\ s_query = <<>>
    /\ max_results \in 1..MaxResultsArg
    /\ expanded_query = FusionQuery
    /\ tables_cache \in { {}, 1..MaxCandidates }
    /\ name_results = <<>> /\ desc_results = <<>> /\ keywords_results = <<>>
    /\ scores = [i \in {} |-> 0] /\ score_order = <<>>
    /\ results = <<>> /\ enable_rerank = FALSE /\ llm_reply = NoReply
    /\ returned_results = <<>> /\ expander_cache = [k \in {} |-> <<>>]
    /\ s_error = None /\ s_pc = "expanded"

FusionReplies ==
    { <<"error">>, <<"order", <<1, 0>> >>, <<"order", <<3, 3, 9, 0>> >> }

\* ---- _rerank_with_llm on its own: search from line 401 on ----

\* Longest result list handed to the rerank.
MaxRerankLen == 7
\* Longest index list the collaborator answers with.
MaxPicks == 4

\* a fusion ranking of n candidates
RankedList(n) == [j \in 1..n |-> [id |-> j, score |-> <<n - j, n>>]]

SeqsUpTo(S, k) == UNION { [1..m -> S] : m \in 0..k }

\* Length of the long index lists the collaborator answers with (the prompt
\* asks for five indices; these are longer).
LongPicks == 6

\* long index lists over the sixth candidate and an index past the end
LongReplies ==
    { <<"order", l>> : l \in [1..LongPicks -> {5, Len(results)}] }

RerankReplies ==
    { <<"error">> }
      \cup { <<"order", l>> : l \in SeqsUpTo(0..Len(results), MaxPicks) }
      \cup LongReplies

RerankStart ==
    /\ s_query = <<>>
    /\ max_results = MaxRerankLen
    /\ expanded_query = <<>>
    /\ tables_cache = {}
    /\ name_results = <<>> /\ desc_results = <<>> /\ keywords_results = <<>>
    /\ scores = [i \in {} |-> 0] /\ score_order = <<>>
    /\ results \in { RankedList(n) : n \in 0..MaxRerankLen }
    /\ enable_rerank = FALSE /\ llm_reply = NoReply
    /\ returned_results = <<>> /\ expander_cache = [k \in {} |-> <<>>]
    /\ s_error = None /\ s_pc = "fused"

\* ---- the whole search, query after query ----

FlowQueries == { Str_ab, <<"A", "b", " ">>, Str_ba }

FlowReplies == { <<"error">>, <<"order", <<3, 0>> >> }

FlowStart ==
    /\ s_query = <<>> /\ max_results = 0 /\ expanded_query = <<>>
    /\ tables_cache \in { {}, 1..MaxCandidates }
    /\ name_results = <<>> /\ desc_results = <<>> /\ keywords_results = <<>>
    /\ scores = [i \in {} |-> 0] /\ score_order = <<>>
    /\ results = <<>> /\ enable_rerank = FALSE /\ llm_reply = NoReply
    /\ returned_results = <<>> /\ expander_cache = [k \in {} |-> <<>>]
    /\ s_error = None /\ s_pc = "idle"

-----------------------------------------------------------------------------
(***************************************************************************)
(* Claims about search                                                     *)
(***************************************************************************)

\* The similarity of a table in one view as the claim defines it: the
\* largest 1 - d/2 (in halves: 2 - d) over the view's hits for the table,
\* 0 when the view has no hit for it.
ViewSimilarity(hits, id) ==
    LET sims == { 2 - hits[i].distance : i \in { j \in DOMAIN hits :
                                                    hits[j].id = id } }
    IN  IF sims = {} THEN 0
        ELSE CHOOSE m \in sims : \A x \in sims : x <= m

HitIds(hits) == { hits[i].id : i \in DOMAIN hits }

\* C4: every candidate of search has, per view, the largest similarity
\* 1 - d/2 of its hits (0 without a hit), and its combined score is exactly
\* 0.30 name + 0.20 description + 0.25 keywords + 0.25 bm25 and lies in
\* [0, 1].  With similarities in halves and bm25 = b1/b2, combined = c1/c2:
\*   c1/c2 = (30 n/2 + 20 d/2 + 25 k/2 + 25 b1/b2) / 100
C4_CombinedScore ==
    s_pc \in {"fused", "returned"} =>
      /\ DOMAIN scores = HitIds(name_results) \cup HitIds(desc_results)
                           \cup HitIds(keywords_results)
      /\ \A id \in DOMAIN scores :
           LET n == ViewSimilarity(name_results, id)
               d == ViewSimilarity(desc_results, id)
               k == ViewSimilarity(keywords_results, id)
               b == scores[id].bm25
               c == scores[id].combined
           IN  /\ scores[id].name = n
               /\ scores[id].description = d
               /\ scores[id].keywords = k
               /\ b[2] > 0 /\ 0 <= b[1] /\ b[1] <= b[2]
               /\ c[2] > 0
               /\ c[1] * (100 * 2 * b[2])
                    = c[2] * ((30 * n + 20 * d + 25 * k) * b[2] + 25 * 2 * b[1])
               /\ 0 <= c[1] /\ c[1] <= c[2]
      /\ \A j \in DOMAIN results :
           results[j].score = scores[results[j].id].combined

\* C4 witness: a candidate with three different similarities and a bm25
\* score strictly between 0 and 1, and a candidate one view has no hit for.
C4_Witness ==
    /\ s_pc = "fused"
    /\ \E id \in DOMAIN scores :
         /\ scores[id].name = 2 /\ scores[id].description = 1
         /\ scores[id].keywords = 0
         /\ id \in HitIds(keywords_results)
         /\ 0 < scores[id].bm25[1] /\ scores[id].bm25[1] < scores[id].bm25[2]
    /\ \E id \in DOMAIN scores :
         id \notin HitIds(name_results) /\ scores[id].combined[1] > 0

ReturnedIds == { returned_results[j].id : j \in DOMAIN returned_results }

\* C7: with reranking disabled or at most 3 candidates, search returns at
\* most max_results results, each table once, in non-increasing order of
\* combined score, and no candidate left out scores higher than one returned.
C7_TopResults ==
    (s_pc = "returned" /\ (~enable_rerank \/ Len(results) <= 3)) =>
      /\ Len(returned_results) <= max_results
      /\ ReturnedIds \subseteq DOMAIN scores
      /\ \A i \in DOMAIN returned_results, j \in DOMAIN returned_results :
           /\ returned_results[i].score
                = scores[returned_results[i].id].combined
           /\ i # j => returned_results[i].id # returned_results[j].id
           /\ i < j => FracGeq(returned_results[i].score,
                               returned_results[j].score)
      /\ \A c \in DOMAIN scores \ ReturnedIds :
           \A j \in DOMAIN returned_results :
              FracGeq(returned_results[j].score, scores[c].combined)

\* C7 witness: four results of different scores returned with reranking
\* disabled; the candidate first seen is not the best one.
C7_Witness ==
    /\ s_pc = "returned"
    /\ ~enable_rerank
    /\ Len(returned_results) = 4
    /\ \A j \in 1..3 : FracGt(returned_results[j].score,
                              returned_results[j + 1].score)
    /\ score_order[1] # returned_results[1].id

\* C7 witness of the second case: reranking enabled, three results, and a
\* candidate with a lower score left out.
C7_WitnessShortList ==
    /\ s_pc = "returned"
    /\ enable_rerank
    /\ Len(returned_results) = 3
    /\ max_results = 3
    /\ Cardinality(DOMAIN scores) = 4

\* ---- the order _rerank_with_llm is to produce, stated on index sets ----

\* the k-th smallest element of a set of integers
KthSmallest(S, k) == CHOOSE x \in S : Cardinality({ y \in S : y <= x }) = k

\* the subsequence of seq at the positions in P
SubSeqAt(seq, P) == [k \in 1..Cardinality(P) |-> seq[KthSmallest(P, k)]]

\* positions of seq in lo..hi holding an index in range, not in `placed`,
\* and not held by an earlier position in lo..hi
FreshPositions(seq, lo, hi, n, placed) ==
    { i \in lo..Min(hi, Len(seq)) :
        /\ 0 <= seq[i] /\ seq[i] < n
        /\ seq[i] \notin placed
        /\ \A j \in lo..(i - 1) : seq[j] # seq[i] }

\* C8 as claimed: the LLM's first three picks, then the first five
\* candidates of the original ranking not already placed, then the LLM's
\* remaining picks, then all remaining candidates in original order.
ClaimedOrder(l, n) ==
    LET first == SubSeqAt(l, FreshPositions(l, 1, 3, n, {}))
        top5  == SubSeqAt([i \in 1..n |-> i - 1],
                          { i \in 1..Min(5, n) : (i - 1) \notin Range(first) })
        later == SubSeqAt(l, FreshPositions(l, 4, Len(l), n,
                                            Range(first) \cup Range(top5)))
        rest  == SubSeqAt([i \in 1..n |-> i - 1],
                          { i \in 1..n : (i - 1) \notin Range(first)
                               \cup Range(top5) \cup Range(later) })
    IN  first \o top5 \o later \o rest

\* C8 as amended: as claimed, but the original ranking's first five are
\* added only until the list holds five entries.
AmendedOrder(l, n) ==
    LET first == SubSeqAt(l, FreshPositions(l, 1, 3, n, {}))
        free  == { i \in 1..Min(5, n) : (i - 1) \notin Range(first) }
        fill  == { i \in free :
                     Cardinality({ j \in free : j <= i }) <= 5 - Len(first) }
        top5  == SubSeqAt([i \in 1..n |-> i - 1], fill)
        later == SubSeqAt(l, FreshPositions(l, 4, Len(l), n,
                                            Range(first) \cup Range(top5)))
        rest  == SubSeqAt([i \in 1..n |-> i - 1],
                          { i \in 1..n : (i - 1) \notin Range(first)
                               \cup Range(top5) \cup Range(later) })
    IN  first \o top5 \o later \o rest

Reranked == s_pc = "returned" /\ enable_rerank /\ Len(results) > 3
              /\ IsOrder(llm_reply)

\* C8 (original statement): with more than 3 candidates and an index list
\* from the collaborator, the returned list is the claimed order.
C8_ClaimedOrder ==
    Reranked =>
      returned_results
        = [j \in 1..Len(results) |->
              results[ClaimedOrder(llm_reply[2], Len(results))[j] + 1]]

\* C8 (amended): with more than 3 candidates and an index list from the
\* collaborator, the returned list is: the LLM's first three picks (repeated
\* and out-of-range indices skipped), then candidates among the first five
\* of the original ranking not already placed, added only until the list
\* holds five entries, then the LLM's remaining picks, then all remaining
\* candidates in original order.
C8_InterleavedOrder ==
    Reranked =>
      LET order == AmendedOrder(llm_reply[2], Len(results))
      IN  returned_results = [j \in 1..Len(results) |-> results[order[j] + 1]]

\* C8 witness: a reply with a repeated and an out-of-range index among its
\* first three picks, a fourth pick beyond the first five, and a returned
\* order that differs from the fusion ranking.
C8_Witness ==
    /\ Reranked
    /\ Len(llm_reply[2]) = 4
    /\ llm_reply[2][1] = llm_reply[2][2]
    /\ llm_reply[2][3] >= Len(results)
    /\ llm_reply[2][4] >= 5 /\ llm_reply[2][4] < Len(results)
    /\ llm_reply[2][1] >= 5 /\ llm_reply[2][1] < Len(results)
    /\ llm_reply[2][1] # llm_reply[2][4]
    /\ returned_results # results

\* C31: for every candidate list and every reply of the rerank collaborator
\* (an index list of any length, with repeats and out-of-range values, or no
\* usable list), _rerank_with_llm returns a permutation of its input: the
\* same number of entries, every input candidate exactly once.
C31_Permutation ==
    (s_pc = "returned" /\ enable_rerank) =>
      /\ Len(returned_results) = Len(results)
      /\ \A j \in DOMAIN results :
            Cardinality({ k \in DOMAIN returned_results :
                            returned_results[k] = results[j] }) = 1

\* C31 witness: a reply of more than five indices, with the sixth candidate
\* picked repeatedly and an out-of-range value, was answered, and the
\* returned list is a reordering of the candidates.
C31_Witness ==
    /\ Reranked
    /\ Len(llm_reply[2]) > 5
    /\ llm_reply[2][1] = 5 /\ llm_reply[2][2] = 5
    /\ llm_reply[2][3] = Len(results) /\ Len(results) > 5
    /\ llm_reply[2][6] = 5
    /\ returned_results # results
    /\ Len(returned_results) = Len(results)

\* C9: search never fails because the expansion or the rerank collaborator
\* failed, on the first query or on a later one: no exception of
\* expand_query leaves search, a failed rerank returns the fusion ranking.
C9_EnrichmentFailureHarmless ==
    /\ s_error # "TypeError in expand_query"
    /\ (s_pc = "returned" /\ ~IsOrder(llm_reply)) => returned_results = results

\* C10: when the query of one sub-index fails, search still completes: no
\* failure of a view's query leaves search.
C10_SubIndexFailureDegrades ==
    s_error \notin Views

-----------------------------------------------------------------------------
(***************************************************************************)
(* Part 6.  The stores of OptimizedRetriever: the three collections, the   *)
(* inverted index and the table cache, under index_table, delete_table,    *)
(* clear, get_table and count.                                             *)
(*                                                                         *)
(* A collection maps an id to the document and the metadata upserted with  *)
(* it (the embedding is a function of the document).  Ids are kept as      *)
(* integers: str(id) is one-to-one.                                        *)
(***************************************************************************)

StoreIds == {1, 2}

\* The records handed to index_table: two versions per id.
StoreTable(id, v) ==
    [ id           |-> id,
      name         |-> IF v = 1 THEN Str_ab ELSE <<"B", "a", "_", "b", "b">>,
      display_name |-> IF v = 1 THEN <<>> ELSE <<"a", "a">>,
      description  |-> IF v = 1 THEN <<>> ELSE Str_ab,
      keywords     |-> IF v = 1 THEN << Str_bb >> ELSE <<>>,
      domain       |-> IF v = 1 THEN <<"a", "b">> ELSE <<"b", "a">>,
      owner_name   |-> <<>> ]

StoreTables == { StoreTable(id, v) : id \in StoreIds, v \in {1, 2} }

LowerText(text) == [i \in 1..Len(text) |-> Lower(text[i])]

Strip(text) == RStrip(LStrip(text))

\* The replies of the keyword-enrichment collaborator: an error (status at
\* keyword_enricher.py 256, exception at 285, no array at 264) or the parsed
\* list of new keywords (265).
EnrichReplies ==
    { <<"error">>,
      <<"keywords", << <<" ", "B", "a">>, <<"B", "b">>, <<" ">> >> >> }

RECURSIVE AddKeywords(_, _)
\* keyword_enricher.py 276-281: add each new keyword, stripped and
\* lower-cased, that is not empty and not yet present (case-insensitively)
AddKeywords(all_keywords, new_keywords) ==
    IF new_keywords = <<>> THEN all_keywords
    ELSE LET kw       == Head(new_keywords)
             clean_kw == LowerText(Strip(kw))
             present  == { LowerText(k) : k \in Range(all_keywords) }
         IN  AddKeywords(IF Strip(kw) # <<>> /\ clean_kw \notin present
                         THEN Append(all_keywords, clean_kw)
                         ELSE all_keywords,
                         Tail(new_keywords))

\* keyword_enricher.py 193-288: enrich_keywords with no learned keywords:
\* the existing keywords on an error, else existing + new, at most 35
enrich_keywords(existing_keywords, reply) ==
    IF reply[1] = "error" THEN existing_keywords
    ELSE Take(AddKeywords(existing_keywords, reply[2]), 35)

\* keyword_enricher.py 290-301: enrich_table
enrich_table(table, reply) ==
    [table EXCEPT !.keywords = enrich_keywords(table.keywords, reply)]

RECURSIVE JoinSpace(_)
\* " ".join(list)
JoinSpace(list) ==
    IF list = <<>> THEN <<>>
    ELSE IF Len(list) = 1 THEN Head(list)
    ELSE Head(list) \o <<" ">> \o JoinSpace(Tail(list))

\* optimized_retriever.py 231-233: the text embedded for each view
name_text(table) == table.name \o <<" ">> \o table.display_name
desc_text(table) ==
    IF table.description # <<>> THEN table.description ELSE name_text(table)
keywords_text(table) ==
    IF JoinSpace(table.keywords) # <<>> THEN JoinSpace(table.keywords)
    ELSE name_text(table)

ViewText(v, table) ==
    CASE v = "name"        -> name_text(table)
      [] v = "description" -> desc_text(table)
      [] v = "keywords"    -> keywords_text(table)

\* What a view holds for a table (optimized_retriever.py 250-269).
ViewEntry(v, table) ==
    [document |-> ViewText(v, table), metadata |-> Metadata(table)]

\* Mutant of Upsert: an id already present keeps its entry.
UpsertIfAbsent(coll, id, entry) ==
    [i \in DOMAIN coll \cup {id} |->
        IF i \in DOMAIN coll THEN coll[i] ELSE entry]

\* collection.upsert(ids=[id], ...): insert or overwrite
Upsert(coll, id, entry) ==
    [i \in DOMAIN coll \cup {id} |-> IF i = id THEN entry ELSE coll[i]]

\* optimized_retriever.py 156-178: the tokens _build_inverted_index_entry
\* collects from name, display name, keywords, domain and owner name
TableTokens(table) ==
    Range(_tokenize(table.name)) \cup Range(_tokenize(table.display_name))
      \cup UNION { Range(_tokenize(kw)) : kw \in Range(table.keywords) }
      \cup Range(_tokenize(table.domain))
      \cup Range(_tokenize(table.owner_name))

\* optimized_retriever.py 156-178: _build_inverted_index_entry
_build_inverted_index_entry(index, table_id, table) ==
    [token \in DOMAIN index \cup TableTokens(table) |->
        IF token \in TableTokens(table)
        THEN (IF token \in DOMAIN index THEN index[token] ELSE {})
               \cup {table_id}
        ELSE index[token]]

\* Mutant of CachePut: a cached id keeps its table.
CachePutIfAbsent(cache, id, table) ==
    [i \in DOMAIN cache \cup {id} |->
        IF i \in DOMAIN cache THEN cache[i] ELSE table]

\* optimized_retriever.py 275: self._tables_cache[table["id"]] = table
CachePut(cache, id, table) ==
    [i \in DOMAIN cache \cup {id} |-> IF i = id THEN table ELSE cache[i]]

\* dict without a key: collection.delete(ids=[id]) and dict.pop(id, None)
Remove(f, id) == [i \in DOMAIN f \ {id} |-> f[i]]

\* Mutant of CachePop: the cache keeps the table.
CacheKeep(cache, id) == cache

\* optimized_retriever.py 659: self._tables_cache.pop(table_id, None)
CachePop(cache, id) == Remove(cache, id)

Empty == [i \in {} |-> None]

\* Mutant of ClearIndex: the inverted index is left as it is.
ClearIndexKeep(index) == index

\* optimized_retriever.py 713: self._inverted_index.clear()
ClearIndex(index) == Empty

\* get_table's `return None`, as a record so that it compares with tables
NoTable == [absent |-> TRUE]

\* optimized_retriever.py 664-681: get_table
get_table(id) ==
    IF id \in DOMAIN _tables_cache THEN _tables_cache[id]
    ELSE IF id \in DOMAIN _collections["name"]
         THEN _collections["name"][id].metadata
         ELSE NoTable

\* optimized_retriever.py 697-700: count
count == Cardinality(DOMAIN _collections["name"])

\* The callers of index_table that may overlap.  A call is "idle" (not yet
\* made), "enriching" (suspended in enrich_table), "ready" (no enrichment,
\* about to write) or "done"; overlapped records that another call was in
\* flight during this one.
Callers == {1, 2}

Idle == [pc |-> "idle", table |-> None, overlapped |-> FALSE]

LastStep(op, id, table, ret, count_before) ==
    [op |-> op, id |-> id, table |-> table, ret |-> ret,
     count_before |-> count_before,
     was_indexed |-> id \in DOMAIN _collections["name"],
     was_stored  |-> \/ id \in DOMAIN _tables_cache
                     \/ \E v \in Views : id \in DOMAIN _collections[v]]

\* optimized_retriever.py 201-225: index_table is called and runs up to its
\* only suspension, the await of enrich_table (taken when enable_enrichment
\* and the table is not marked _enriched).  Nothing is written before it.
IndexCall(c, t) ==
    /\ index_calls[c].pc \in {"idle", "done"}
    /\ \E enrich \in BOOLEAN :
         LET inFlight == { d \in Callers \ {c} :
                             index_calls[d].pc \in {"enriching", "ready"} }
         IN  index_calls' =
               [d \in Callers |->
                  IF d = c
                  THEN [pc |-> IF enrich THEN "enriching" ELSE "ready",
                        table |-> t, overlapped |-> inFlight # {}]
                  ELSE IF d \in inFlight
                       THEN [index_calls[d] EXCEPT !.overlapped = TRUE]
                       ELSE index_calls[d]]
    /\ st_last' = LastStep("index_table:call", t.id, t, None, count)
    /\ UNCHANGED <<_collections, _inverted_index, _tables_cache>>

\* optimized_retriever.py 225-275: the call resumes with the enriched table
\* and, with no further suspension, upserts the three views, extends the
\* inverted index and caches the table.
IndexWrite(c) ==
    /\ index_calls[c].pc \in {"enriching", "ready"}
    /\ \E reply \in (IF index_calls[c].pc = "enriching" THEN EnrichReplies
                     ELSE {<<"error">>}) :
         LET t     == index_calls[c].table
             table == IF index_calls[c].pc = "enriching"
                      THEN enrich_table(t, reply) ELSE t
         IN  /\ _collections' =
                   [v \in Views |->
                       Upsert(_collections[v], table.id, ViewEntry(v, table))]
             /\ _inverted_index' =
                   _build_inverted_index_entry(_inverted_index, table.id, table)
             /\ _tables_cache' = CachePut(_tables_cache, table.id, table)
             /\ index_calls' = [index_calls EXCEPT ![c] =
                                   [pc |-> "done", table |-> None,
                                    overlapped |-> @.overlapped]]
             /\ st_last' = LastStep("index_table", table.id,
                                    [given |-> t, stored |-> table], None,
                                    count)

\* the order of self._collections.values() (filled at 103-114)
ViewPos(v) ==
    CASE v = "name" -> 1 [] v = "description" -> 2 [] v = "keywords" -> 3

\* optimized_retriever.py 650-662: delete_table.  The collections are
\* deleted from in order; when all three deletes succeed the cache entry is
\* popped and True returned; a delete that raises ends the call with False,
\* the earlier deletes done (k is the number of deletes that succeeded).
DeleteTable(id) ==
    \E k \in 0..3 :
      /\ _collections' =
            [v \in Views |-> IF ViewPos(v) <= k THEN Remove(_collections[v], id)
                             ELSE _collections[v]]
      /\ _tables_cache' = IF k = 3 THEN CachePop(_tables_cache, id)
                          ELSE _tables_cache
      /\ st_last' = LastStep("delete_table", id, None, k = 3, count)
      /\ UNCHANGED <<_inverted_index, index_calls>>

\* optimized_retriever.py 702-716: clear
Clear ==
    /\ _collections' = [v \in Views |-> Empty]
    /\ _inverted_index' = ClearIndex(_inverted_index)
    /\ _tables_cache' = Empty
    /\ st_last' = LastStep("clear", 0, None, count, count)
    /\ UNCHANGED index_calls

\* optimized_retriever.py 82-89: a new retriever
StoreStart ==
    /\ _collections = [v \in Views |-> Empty]
    /\ _inverted_index = Empty
    /\ _tables_cache = Empty
    /\ index_calls = [c \in Callers |-> Idle]
    /\ st_last = LastStep("init", 0, None, None, 0)

StoreOff ==
    /\ _collections = [v \in Views |-> Empty]
    /\ _inverted_index = Empty
    /\ _tables_cache = Empty
    /\ index_calls = [c \in Callers |-> Idle]
    /\ st_last = None

\* ---- two overlapping index_table calls for one id ----

RaceId == 1

\* each caller indexes its own record of the same table id
RaceTables(c) == { StoreTable(RaceId, c) }

RaceStart == StoreStart

-----------------------------------------------------------------------------
(***************************************************************************)
(* Claims about the stores                                                 *)
(***************************************************************************)

IsPrefix(a, b) == Len(a) <= Len(b) /\ SubSeq(b, 1, Len(a)) = a

\* C11: right after index_table(t), get_table(t.id) returns a record whose
\* name, display_name and domain are t's; all three views and the cached
\* table hold this record (the views its texts and metadata, with the
\* keywords as enriched), also when the id was indexed before, and then
\* count() is what it was before the call.
C11_UpsertThenGet ==
    st_last.op = "index_table" =>
      LET id == st_last.id
          t  == st_last.table.given
          w  == st_last.table.stored
          r  == get_table(id)
      IN  /\ r # NoTable
          /\ r.name = t.name /\ r.display_name = t.display_name
          /\ r.domain = t.domain
          /\ w = [t EXCEPT !.keywords = w.keywords]
          /\ IsPrefix(t.keywords, w.keywords)
          /\ \A v \in Views :
               /\ id \in DOMAIN _collections[v]
               /\ _collections[v][id].metadata = Metadata(t)
               /\ _collections[v][id].document = ViewText(v, w)
          /\ _tables_cache[id] = w
          /\ st_last.was_indexed => count = st_last.count_before

\* C11 witness: an index_table that overwrote an earlier version of the
\* table (a token of the earlier version is still in the inverted index),
\* with enriched keywords, while another table is indexed.
C11_Witness ==
    /\ st_last.op = "index_table"
    /\ st_last.was_indexed
    /\ count = 2
    /\ st_last.table.stored.keywords # st_last.table.given.keywords
    /\ \E token \in DOMAIN _inverted_index :
         /\ st_last.id \in _inverted_index[token]
         /\ token \notin TableTokens(st_last.table.stored)

\* C12: after a delete_table(id) that returned True for an indexed id,
\* get_table(id) is absent and count() is one less than before; a
\* delete_table of an id stored nowhere raises nothing (it returns a
\* boolean) and leaves count() and every stored record as they were.
C12_DeleteState ==
    st_last.op = "delete_table" =>
      /\ (st_last.was_indexed /\ st_last.ret = TRUE) =>
           /\ get_table(st_last.id) = NoTable
           /\ count = st_last.count_before - 1
      /\ ~st_last.was_stored =>
           /\ st_last.ret \in BOOLEAN
           /\ count = st_last.count_before

C12_DeleteStep ==
    (st_last'.op = "delete_table" /\ ~st_last'.was_stored)
      => UNCHANGED <<_collections, _tables_cache, _inverted_index>>

C12_WitnessAbsent ==
    /\ st_last.op = "delete_table"
    /\ ~st_last.was_stored
    /\ count = 1

\* C13: right after clear(), the value it returned is the count() from
\* before it, count() is 0, get_table is absent for every id, and the
\* inverted index and the table cache are empty.
C13_Clear ==
    st_last.op = "clear" =>
      /\ st_last.ret = st_last.count_before
      /\ count = 0
      /\ \A id \in StoreIds : get_table(id) = NoTable
      /\ _inverted_index = Empty
      /\ _tables_cache = Empty
      /\ \A v \in Views : _collections[v] = Empty

\* C13 witness: a clear of a store that held two tables.
C13_Witness ==
    /\ st_last.op = "clear"
    /\ st_last.ret = 2

\* the ids of the tables stored in some view or in the cache
StoredIds ==
    DOMAIN _tables_cache \cup UNION { DOMAIN _collections[v] : v \in Views }

\* C14: the inverted index maps every token to exactly the ids of the
\* tables currently indexed whose current record contains the token.
C14_InvertedIndexExact ==
    /\ \A token \in DOMAIN _inverted_index :
         _inverted_index[token]
           = { id \in DOMAIN _tables_cache :
                  token \in TableTokens(_tables_cache[id]) }
    /\ \A id \in DOMAIN _tables_cache :
         TableTokens(_tables_cache[id]) \subseteq DOMAIN _inverted_index
    /\ \A token \in DOMAIN _inverted_index :
         _inverted_index[token] \subseteq StoredIds

BothDone ==
    \A c \in Callers :
       index_calls[c].pc = "done" /\ index_calls[c].overlapped

\* C15: after two overlapping index_table calls for one id with different
\* records have both completed, the three views and the table cache all
\* hold the same one of the two records (with its keywords as enriched).
C15_OverlapConverges ==
    BothDone =>
      \E c \in Callers : \E t \in RaceTables(c) :
        \E reply \in EnrichReplies :
          LET r == enrich_table(t, reply)
          IN  /\ \A v \in Views :
                   /\ RaceId \in DOMAIN _collections[v]
                   /\ _collections[v][RaceId] = ViewEntry(v, r)
              /\ RaceId \in DOMAIN _tables_cache
              /\ _tables_cache[RaceId] = r

\* C15 witness: both calls overlapped and are done, and the record that
\* stays has keywords added by the enrichment.
C15_Witness ==
    /\ BothDone
    /\ _tables_cache[RaceId].name = StoreTable(RaceId, 1).name
    /\ _tables_cache[RaceId].keywords # StoreTable(RaceId, 1).keywords
    /\ \E token \in DOMAIN _inverted_index :
         token \notin TableTokens(_tables_cache[RaceId])

\* C36: after any sequence of index_table, delete_table and clear, with
\* calls in which a sub-index operation fails among them, the name,
\* description and keywords views hold the same ids and every id of the
\* metadata cache is in them; and a delete_table that returned False has
\* removed the id from none of them.
C36_ViewsAgree ==
    /\ \A v \in Views : DOMAIN _collections[v] = DOMAIN _collections["name"]
    /\ DOMAIN _tables_cache \subseteq DOMAIN _collections["name"]
    /\ (st_last.op = "delete_table" /\ ~st_last.ret /\ st_last.was_indexed)
          => \A v \in Views : st_last.id \in DOMAIN _collections[v]

-----------------------------------------------------------------------------
(***************************************************************************)
(* Part 7: generate_concept_hash (memory/feedback_store.py 457-467)        *)
(*                                                                         *)
(* An intent is a dict: a function from some of the five field names to    *)
(* texts.  sha256(...).hexdigest()[:16] is kept as a tagged copy of the    *)
(* text it digests: two digests are equal exactly when the digested texts  *)
(* are (collisions of the 64-bit prefix are left out).                      *)
(***************************************************************************)

\* feedback_store.py 459-465: the fields read, in the order of key_parts
FieldOrder ==
    <<"data_need", "target_entity", "target_product", "target_segment",
      "granularity">>

FieldNames == { FieldOrder[i] : i \in DOMAIN FieldOrder }

\* values of a field: empty, upper case, lower case, mixed case
HashTexts == { <<>>, <<"B">>, <<"a">>, <<"A", "b">> }

\* the dicts handed to generate_concept_hash: any field may be missing
Intents == UNION { [S -> HashTexts] : S \in SUBSET FieldNames }

\* ord(c) of the characters used
CodePoint(c) ==
    CASE c = "A" -> 65
      [] c = "B" -> 66
      [] c = "a" -> 97
      [] c = "b" -> 98
      [] c = "|" -> 124
      [] OTHER   -> 32

RECURSIVE LessText(_, _)
\* str.__lt__ : lexicographic by code point, a proper prefix is smaller
LessText(a, b) ==
    IF b = <<>> THEN FALSE
    ELSE IF a = <<>> THEN TRUE
    ELSE IF Head(a) # Head(b) THEN CodePoint(Head(a)) < CodePoint(Head(b))
    ELSE LessText(Tail(a), Tail(b))

RECURSIVE InsertText(_, _)
InsertText(sorted_parts, text) ==
    IF sorted_parts = <<>> THEN <<text>>
    ELSE IF LessText(text, Head(sorted_parts)) THEN <<text>> \o sorted_parts
    ELSE <<Head(sorted_parts)>> \o InsertText(Tail(sorted_parts), text)

RECURSIVE SortedTexts(_)
\* sorted(parts)
SortedTexts(parts) ==
    IF parts = <<>> THEN <<>>
    ELSE InsertText(SortedTexts(SubSeq(parts, 1, Len(parts) - 1)),
                    parts[Len(parts)])

\* intent_data.get(field, "")
GetField(intent_data, field) ==
    IF field \in DOMAIN intent_data THEN intent_data[field] ELSE <<>>

\* feedback_store.py 459-465
key_parts(intent_data) ==
    [i \in DOMAIN FieldOrder |-> GetField(intent_data, FieldOrder[i])]

\* filter(None, key_parts): the empty texts are dropped
FilterNone(parts) == SelectSeq(parts, LAMBDA text : text # <<>>)

RECURSIVE JoinBar(_)
\* "|".join(list)
JoinBar(list) ==
    IF list = <<>> THEN <<>>
    ELSE IF Len(list) = 1 THEN Head(list)
    ELSE Head(list) \o <<"|">> \o JoinBar(Tail(list))

\* feedback_store.py 466: sorted first, lower-cased afterwards
Normalized(intent_data) ==
    LowerText(JoinBar(SortedTexts(FilterNone(key_parts(intent_data)))))

\* feedback_store.py 467
Sha256Prefix(text) == <<"sha256", text>>

\* feedback_store.py 457-467
generate_concept_hash(intent_data) == Sha256Prefix(Normalized(intent_data))

\* no call made yet: no intent, no digest
NoHash == <<>>

\* one call of generate_concept_hash
GenerateConceptHash ==
    /\ hash_out = NoHash
    /\ hash_out' = generate_concept_hash(hash_in)
    /\ UNCHANGED hash_in

HashStart == hash_in \in Intents /\ hash_out = NoHash

HashOff == hash_in = <<>> /\ hash_out = NoHash

(***************************************************************************)
(* Claim about the concept hash                                            *)
(***************************************************************************)

\* the same intent with every field value lower-cased
LowerIntent(intent_data) ==
    [f \in DOMAIN intent_data |-> LowerText(intent_data[f])]

\* the bijections of the field names
FieldPermutations ==
    { p \in [FieldNames -> FieldNames] :
        \A f, g \in FieldNames : p[f] = p[g] => f = g }

\* the same values held by other fields
PermutedIntent(intent_data, p) ==
    [f \in { p[g] : g \in DOMAIN intent_data } |->
        intent_data[CHOOSE g \in DOMAIN intent_data : p[g] = f]]

\* the same intent without its empty fields, and with every missing field
\* present and empty
WithoutEmpty(intent_data) ==
    [f \in { g \in DOMAIN intent_data : intent_data[g] # <<>> } |->
        intent_data[f]]

WithEmpty(intent_data) ==
    [f \in FieldNames |-> GetField(intent_data, f)]

C16_CaseInvariant ==
    hash_out # NoHash =>
        generate_concept_hash(LowerIntent(hash_in)) = hash_out

C16_PermutationInvariant ==
    hash_out # NoHash =>
        \A p \in FieldPermutations :
            generate_concept_hash(PermutedIntent(hash_in, p)) = hash_out

C16_EmptyInvariant ==
    hash_out # NoHash =>
        /\ generate_concept_hash(WithoutEmpty(hash_in)) = hash_out
        /\ generate_concept_hash(WithEmpty(hash_in)) = hash_out

\* C16: two intents that differ only in letter case, in which field holds
\* which value, or in empty and missing fields have the same concept hash.
C16_HashInvariant ==
    /\ C16_CaseInvariant
    /\ C16_PermutationInvariant
    /\ C16_EmptyInvariant

-----------------------------------------------------------------------------
(***************************************************************************)
(* Part 8: FeedbackStore (memory/feedback_store.py 223-435)                *)
(*                                                                         *)
(* A justification is a sequence of phrases; "kw in text_lower" is the     *)
(* presence of the phrase kw.  A DecisionRecord keeps the fields the score *)
(* reads.  A weight is kept in halves (1.0 is 2) and a score is a fraction *)
(* <<num, den>> in lowest terms, so that equal floats are equal scores.    *)
(* _cache_updated holds the age of an entry in minutes instead of the time *)
(* it was written.                                                         *)
(***************************************************************************)

\* feedback_store.py 296, 318: f"{concept_hash}:{table_id}"
PairKey(concept_hash, table_id) == <<concept_hash, table_id>>

ConceptHashes == {"h1"}
FbTableIds == {1, 2}
PairKeys == { PairKey(h, t) : h \in ConceptHashes, t \in FbTableIds }

\* feedback_store.py 168: text.lower(), phrase by phrase
LowerPhrase(p) == IF p = "Perfeito" THEN "perfeito" ELSE p

text_lower(text) == [i \in DOMAIN text |-> LowerPhrase(text[i])]

\* feedback_store.py 174
close_indicators == <<"quase", "quase certo", "parecido", "similar", "perto">>

\* feedback_store.py 85-134, in the order of the dict: the categories whose
\* keywords the justifications of the model can contain
REJECTION_KEYWORDS ==
    << [reason |-> "wrong_entity",
        keywords |-> <<"entidade errada", "queria conta">>],
       [reason |-> "outdated_data",
        keywords |-> <<"desatualizado", "antigo">>],
       [reason |-> "concept_mismatch",
        keywords |-> <<"entendeu errado", "conceito errado">>] >>

\* feedback_store.py 136-152
APPROVAL_KEYWORDS ==
    << [reason |-> "exact_match",
        keywords |-> <<"perfeito", "exatamente", "correto">>],
       [reason |-> "good_enough",
        keywords |-> <<"serve", "ok", "funciona">>],
       [reason |-> "certified_source",
        keywords |-> <<"certificada", "fonte oficial", "golden source">>] >>

\* feedback_store.py 179-184, 191-196: the first category, in dict order,
\* one of whose keywords the text contains
FirstCategory(table, lowered, default) ==
    LET hits == { i \in DOMAIN table :
                    Range(table[i].keywords) \cap Range(lowered) # {} }
    IN  IF hits = {} THEN default
        ELSE table[CHOOSE i \in hits : \A j \in hits : i <= j].reason

\* feedback_store.py 154-201: (category, was_close_match)
analyze(text, outcome) ==
    IF text = <<>> THEN [category |-> None, was_close |-> FALSE]
    ELSE [category |->
             CASE outcome = "REJECTED" ->
                     FirstCategory(REJECTION_KEYWORDS, text_lower(text), "other")
               [] outcome = "APPROVED" ->
                     FirstCategory(APPROVAL_KEYWORDS, text_lower(text),
                                   "good_enough")
               [] OTHER -> None,
          was_close |->
             Range(close_indicators) \cap Range(text_lower(text)) # {}]

\* the decisions recorded: an outcome and the justification given with it
Decisions ==
    { <<"APPROVED", <<>> >>,
      <<"APPROVED", <<"Perfeito">> >>,
      <<"APPROVED", <<"certificada">> >>,
      <<"REJECTED", <<>> >>,
      <<"REJECTED", <<"quase">> >>,
      <<"REJECTED", <<"quase", "conceito errado">> >>,
      <<"MODIFIED", <<"quase">> >> }

\* feedback_store.py 251-265: the record after the analysis of its
\* justification (line 255: only when one is given)
AnalyzedRecord(outcome, justification) ==
    LET a == IF justification # <<>> THEN analyze(justification, outcome)
             ELSE [category |-> None, was_close |-> FALSE]
    IN  [id |-> 0,
         outcome |-> outcome,
         justification_text |-> justification,
         justification_category |-> a.category,
         was_close_match |-> a.was_close]

\* a mutant of weight: every decision counts the same
WeightFlat(r) == 2

\* feedback_store.py 344-360, in halves
weight(r) ==
    IF r.justification_category # None
    THEN IF r.outcome = "APPROVED"
         THEN IF r.justification_category = "exact_match" THEN 4
              ELSE IF r.justification_category = "certified_source" THEN 3
              ELSE 2
         ELSE IF r.outcome = "REJECTED"
         THEN IF r.justification_category \in {"concept_mismatch", "wrong_entity"}
              THEN 4
              ELSE IF r.was_close_match THEN 1
              ELSE 2
         ELSE 2
    ELSE 2

\* feedback_store.py 362
outcome_score(r) == IF r.outcome = "APPROVED" THEN 1 ELSE 0

RECURSIVE GCD(_, _)
GCD(a, b) == IF b = 0 THEN a ELSE GCD(b, a % b)

\* the float num / den
Float(num, den) == <<num \div GCD(num, den), den \div GCD(num, den)>>

\* the float 0.5
Half == <<1, 2>>

RECURSIVE Accumulate(_)
\* feedback_store.py 339-364: <<weighted_score, total_weight>> after the loop
Accumulate(records) ==
    IF records = <<>> THEN <<0, 0>>
    ELSE LET rest == Accumulate(SubSeq(records, 1, Len(records) - 1))
             r == records[Len(records)]
         IN  <<rest[1] + outcome_score(r) * weight(r), rest[2] + weight(r)>>

\* feedback_store.py 366
final_score(records) ==
    LET weighted_score == Accumulate(records)[1]
        total_weight == Accumulate(records)[2]
    IN  IF total_weight > 0 THEN Float(weighted_score, total_weight) ELSE Half

\* self._memory_store.get(key, [])
RecordsOf(store, key) == IF key \in DOMAIN store THEN store[key] ELSE <<>>

\* dict[key] = value
DictPut(dict, key, value) ==
    [k \in DOMAIN dict \cup {key} |-> IF k = key THEN value ELSE dict[k]]

\* dict.pop(key, None)
DictPop(dict, key) == [k \in DOMAIN dict \ {key} |-> dict[k]]

\* feedback_store.py 238
_cache_ttl_minutes == 5

\* feedback_store.py 430-435
_is_cache_valid(key) ==
    /\ key \in DOMAIN _cache_updated
    /\ _cache_updated[key] < _cache_ttl_minutes

\* the decisions recorded in all logs together
TotalRecords(store) ==
    LET RECURSIVE Total(_)
        Total(keys) ==
            IF keys = {} THEN 0
            ELSE LET k == CHOOSE x \in keys : TRUE
                 IN  Len(store[k]) + Total(keys \ {k})
    IN  Total(DOMAIN store)

MaxDecisions == 3

\* feedback_store.py 315: the min_samples a caller passes (3 is the default)
MinSamples == {1, 3}

\* no call made yet
NoCall ==
    [op |-> "none", key |-> PairKey("", 0), min_samples |-> 0, ret |-> <<>>,
     raised |-> FALSE, cached_before |-> FALSE]

FbCall(op, key, min_samples, ret, raised) ==
    [op |-> op, key |-> key, min_samples |-> min_samples, ret |-> ret,
     raised |-> raised, cached_before |-> key \in DOMAIN _score_cache]

\* a mutant of _invalidate_cache: the entry stays
InvalidateNothing(dict, key) == dict

\* feedback_store.py 425-428, for each of the two dicts
_invalidate_cache(dict, key) == DictPop(dict, key)

\* a mutant of the append: the new record goes first
PrependRecord(records, record) ==
    <<[record EXCEPT !.id = Len(records) + 1]>> \o records

\* feedback_store.py 301-302
AppendRecord(records, record) ==
    Append(records, [record EXCEPT !.id = Len(records) + 1])

\* feedback_store.py 294-305
_insert_memory(key, record) ==
    LET records == AppendRecord(RecordsOf(_memory_store, key), record)
    IN  /\ _memory_store' = DictPut(_memory_store, key, records)
        /\ _score_cache' = _invalidate_cache(_score_cache, key)
        /\ _cache_updated' = _invalidate_cache(_cache_updated, key)
        /\ fb_last' = FbCall("record_decision", key, 0,
                             <<Len(RecordsOf(_memory_store, key)) + 1>>, FALSE)

\* the position of a table's entry in the learning statistics, 0 if none
StatsIndex(stats, table_id) ==
    IF \E i \in DOMAIN stats : stats[i].table_id = table_id
    THEN CHOOSE i \in DOMAIN stats : stats[i].table_id = table_id
    ELSE 0

\* self._category_stats.get(str(table_id), {})
StatsOf(stats, table_id) ==
    IF StatsIndex(stats, table_id) = 0 THEN Empty
    ELSE stats[StatsIndex(stats, table_id)].categories

\* feedback_store.py 275-284: _update_learning_stats, the category part:
\* the category of the record, if it has one, is counted for its table
CountCategory(stats, record, table_id) ==
    IF record.justification_category = None THEN stats
    ELSE LET categories == StatsOf(stats, table_id)
             cat == record.justification_category
             counted == DictPut(categories, cat,
                                IF cat \in DOMAIN categories
                                THEN categories[cat] + 1 ELSE 1)
         IN  IF StatsIndex(stats, table_id) = 0
             THEN Append(stats, [table_id |-> table_id, categories |-> counted])
             ELSE [stats EXCEPT ![StatsIndex(stats, table_id)].categories =
                                    counted]

RECURSIVE SumCounts(_)
SumCounts(categories) ==
    IF DOMAIN categories = {} THEN 0
    ELSE LET cat == CHOOSE c \in DOMAIN categories : TRUE
         IN  categories[cat] + SumCounts(DictPop(categories, cat))

RECURSIVE TotalCounted(_)
\* the decisions counted in the learning statistics
TotalCounted(stats) ==
    IF stats = <<>> THEN 0
    ELSE SumCounts(stats[Len(stats)].categories)
           + TotalCounted(SubSeq(stats, 1, Len(stats) - 1))

\* feedback_store.py 245-273 with 307-309: _insert_postgres raises.  The
\* learning statistics are updated (line 268) before the record is stored.
RecordDecision(concept_hash, table_id, outcome, justification) ==
    LET record == AnalyzedRecord(outcome, justification)
        key == PairKey(concept_hash, table_id)
    IN  /\ TotalRecords(_memory_store) < MaxDecisions
        /\ TotalCounted(_category_stats) < MaxDecisions
        /\ _category_stats' =
              IF justification # <<>>
              THEN CountCategory(_category_stats, record, table_id)
              ELSE _category_stats
        /\ IF use_postgres
           THEN /\ fb_last' = FbCall("record_decision", key, 0, <<>>, TRUE)
                /\ UNCHANGED <<_memory_store, _score_cache, _cache_updated>>
           ELSE _insert_memory(key, record)
        /\ UNCHANGED use_postgres

\* feedback_store.py 325-372
_query_memory_weighted(key, min_samples) ==
    LET records == RecordsOf(_memory_store, key)
    IN  IF Len(records) < min_samples
        THEN /\ fb_last' = FbCall("get_historical_score", key, min_samples,
                                  <<Half, Len(records)>>, FALSE)
             /\ UNCHANGED <<_score_cache, _cache_updated>>
        ELSE /\ _score_cache' = DictPut(_score_cache, key, final_score(records))
             /\ _cache_updated' = DictPut(_cache_updated, key, 0)
             /\ fb_last' = FbCall("get_historical_score", key, min_samples,
                                  <<final_score(records), Len(records)>>, FALSE)

\* feedback_store.py 311-323
GetHistoricalScore(concept_hash, table_id, min_samples) ==
    LET cache_key == PairKey(concept_hash, table_id)
    IN  /\ IF _is_cache_valid(cache_key)
           THEN /\ fb_last' = FbCall("get_historical_score", cache_key, min_samples,
                       <<IF cache_key \in DOMAIN _score_cache
                         THEN _score_cache[cache_key] ELSE Half, -1>>, FALSE)
                /\ UNCHANGED <<_score_cache, _cache_updated>>
           ELSE _query_memory_weighted(cache_key, min_samples)
        /\ UNCHANGED <<_memory_store, _category_stats, use_postgres>>

\* feedback_store.py 434: the clock passes the TTL of every entry held
TimePasses ==
    /\ \E key \in DOMAIN _cache_updated : _cache_updated[key] < _cache_ttl_minutes
    /\ _cache_updated' = [key \in DOMAIN _cache_updated |-> _cache_ttl_minutes]
    /\ fb_last' = NoCall
    /\ UNCHANGED <<_memory_store, _category_stats, _score_cache, use_postgres>>

\* feedback_store.py 374-376: get_rejection_patterns
get_rejection_patterns(table_id) == StatsOf(_category_stats, table_id)

RECURSIVE InsertByCount(_, _)
\* a pair placed behind every pair whose count is not smaller
InsertByCount(sorted_pairs, pair) ==
    IF sorted_pairs = <<>> THEN <<pair>>
    ELSE IF Head(sorted_pairs)[2] >= pair[2]
         THEN <<Head(sorted_pairs)>> \o InsertByCount(Tail(sorted_pairs), pair)
         ELSE <<pair>> \o sorted_pairs

RECURSIVE SortedByCount(_)
\* sorted(results, key=lambda x: x[1], reverse=True): stable
SortedByCount(pairs) ==
    IF pairs = <<>> THEN <<>>
    ELSE InsertByCount(SortedByCount(SubSeq(pairs, 1, Len(pairs) - 1)),
                       pairs[Len(pairs)])

RECURSIVE IssueResults(_, _)
\* feedback_store.py 380-383: (table, count) of every table with the category
IssueResults(stats, category) ==
    IF stats = <<>> THEN <<>>
    ELSE (IF category \in DOMAIN Head(stats).categories
          THEN << <<Head(stats).table_id, Head(stats).categories[category]>> >>
          ELSE <<>>)
         \o IssueResults(Tail(stats), category)

\* feedback_store.py 378-384: get_tables_with_issue
get_tables_with_issue(category) ==
    SortedByCount(IssueResults(_category_stats, category))

\* feedback_store.py 228-243
FbStart ==
    /\ use_postgres \in BOOLEAN
    /\ _memory_store = Empty
    /\ _category_stats = <<>>
    /\ _score_cache = Empty
    /\ _cache_updated = Empty
    /\ fb_last = NoCall

FbOff ==
    /\ use_postgres = FALSE
    /\ _memory_store = Empty
    /\ _category_stats = <<>>
    /\ _score_cache = Empty
    /\ _cache_updated = Empty
    /\ fb_last = NoCall

(***************************************************************************)
(* Claims about the feedback store                                         *)
(***************************************************************************)

\* the log of the pair of the last call
LastRecords == RecordsOf(_memory_store, fb_last.key)

LastWasGet == fb_last.op = "get_historical_score"

LastWasRecord == fb_last.op = "record_decision" /\ ~fb_last.raised

IsExactApproval(r) ==
    r.outcome = "APPROVED" /\ r.justification_category = "exact_match"

C17_FewSamplesNeutral ==
    (LastWasGet /\ Len(LastRecords) < fb_last.min_samples) =>
        fb_last.ret = <<Half, Len(LastRecords)>>

C17_ExactApprovalsRaise ==
    ( /\ LastWasGet
      /\ Len(LastRecords) >= fb_last.min_samples
      /\ \A i \in DOMAIN LastRecords : IsExactApproval(LastRecords[i]) ) =>
        FracGt(fb_last.ret[1], Half)

\* C17: with n < min_samples decisions recorded for a pair,
\* get_historical_score returns (0.5, n); once the pair's log holds
\* min_samples approvals classified exact_match, the score is above 0.5.
C17_HistoricalScore == C17_FewSamplesNeutral /\ C17_ExactApprovalsRaise

\* what _query_memory_weighted computes from the log of the pair
Recomputed(key, min_samples) ==
    LET records == RecordsOf(_memory_store, key)
    IN  IF Len(records) < min_samples
        THEN <<Half, Len(records)>>
        ELSE <<final_score(records), Len(records)>>

\* C34: the score cache is transparent: every get_historical_score, answered
\* from a valid cache entry or not, returns the (score, sample count) that
\* recomputing from the pair's log with this call's min_samples gives.
C34_CacheTransparent ==
    LastWasGet => fb_last.ret = Recomputed(fb_last.key, fb_last.min_samples)

RECURSIVE SumSeq(_)
SumSeq(numbers) ==
    IF numbers = <<>> THEN 0 ELSE Head(numbers) + SumSeq(Tail(numbers))

\* sum(outcome * weight) / sum(weight), outcome 1 for APPROVED and 0 otherwise
WeightedRate(records, W(_)) ==
    Float(SumSeq([i \in DOMAIN records |->
                    IF records[i].outcome = "APPROVED" THEN W(records[i]) ELSE 0]),
          SumSeq([i \in DOMAIN records |-> W(records[i])]))

\* the weights as claimed, in halves: 2.0 for both strong approvals
ClaimedWeight(r) ==
    IF r.outcome = "APPROVED"
       /\ r.justification_category \in {"exact_match", "certified_source"}
    THEN 4
    ELSE IF r.outcome = "REJECTED"
            /\ r.justification_category \in {"concept_mismatch", "wrong_entity"}
    THEN 4
    ELSE IF r.outcome = "REJECTED" /\ r.was_close_match THEN 1
    ELSE 2

\* the same with 1.5 for an approval categorised certified_source
AmendedWeight(r) ==
    IF r.outcome = "APPROVED" /\ r.justification_category = "certified_source"
    THEN 3
    ELSE ClaimedWeight(r)

\* C18 as stated: for a pair with at least min_samples decisions the score is
\* sum(outcome * weight) / sum(weight) with weight 2.0 for an approval
\* categorised exact_match or certified_source and for a rejection
\* categorised concept_mismatch or wrong_entity, 0.5 for another rejection
\* flagged as a close match, and 1.0 otherwise.
C18_ClaimedWeights ==
    (LastWasGet /\ Len(LastRecords) >= fb_last.min_samples) =>
        fb_last.ret[1] = WeightedRate(LastRecords, ClaimedWeight)

\* C18 amended: the same with weight 1.5 for an approval categorised
\* certified_source.
C18_AmendedWeights ==
    (LastWasGet /\ Len(LastRecords) >= fb_last.min_samples) =>
        fb_last.ret[1] = WeightedRate(LastRecords, AmendedWeight)

\* a score computed over a certified approval, a close rejection and a
\* strong rejection
C18_Witness ==
    /\ LastWasGet
    /\ fb_last.ret[2] = Len(LastRecords)
    /\ Len(LastRecords) >= fb_last.min_samples
    /\ \E i, j, k \in DOMAIN LastRecords :
         /\ LastRecords[i].justification_category = "certified_source"
         /\ LastRecords[j].outcome = "REJECTED"
         /\ LastRecords[j].justification_category = "other"
         /\ LastRecords[j].was_close_match
         /\ LastRecords[k].justification_category = "concept_mismatch"

\* a score held for a pair is the score of the pair's present log
CacheCurrent ==
    \A key \in DOMAIN _score_cache :
        _score_cache[key] = WeightedRate(RecordsOf(_memory_store, key), AmendedWeight)

C19_State ==
    /\ CacheCurrent
    /\ LastWasRecord =>
         /\ fb_last.key \notin DOMAIN _score_cache
         /\ fb_last.key \notin DOMAIN _cache_updated
    /\ (LastWasGet /\ Len(LastRecords) >= fb_last.min_samples) =>
         /\ fb_last.ret[1] = WeightedRate(LastRecords, AmendedWeight)
         /\ fb_last.ret[2] \in {Len(LastRecords), -1}

C19_Step ==
    (fb_last'.op = "record_decision") =>
        \A key \in PairKeys \ {fb_last'.key} :
            /\ (key \in DOMAIN _score_cache') = (key \in DOMAIN _score_cache)
            /\ (key \in DOMAIN _cache_updated') = (key \in DOMAIN _cache_updated)
            /\ key \in DOMAIN _score_cache =>
                 _score_cache'[key] = _score_cache[key]
            /\ key \in DOMAIN _cache_updated =>
                 _cache_updated'[key] = _cache_updated[key]

\* C19: a decision recorded for a pair removes the pair's cache entry, so
\* that every score returned for it afterwards is the score of the complete
\* log, and leaves the cache entries of the other pairs as they were.
C19_RecordInvalidates == [](C19_State) /\ [][C19_Step]_vars

\* a decision recorded for a pair whose score was cached, while the other
\* pair's score is cached too
C19_Witness ==
    /\ LastWasRecord
    /\ fb_last.cached_before
    /\ \E key \in PairKeys \ {fb_last.key} : key \in DOMAIN _score_cache

C20_Step ==
    /\ \A key \in DOMAIN _memory_store :
         /\ key \in DOMAIN _memory_store'
         /\ IsPrefix(_memory_store[key], _memory_store'[key])
    /\ (fb_last'.op = "record_decision" /\ ~fb_last'.raised) =>
         LET key == fb_last'.key
             before == RecordsOf(_memory_store, key)
             after == RecordsOf(_memory_store', key)
         IN  /\ Len(after) = Len(before) + 1
             /\ fb_last'.ret = <<Len(after)>>
             /\ after[Len(after)].id = Len(after)
             /\ \A other \in PairKeys \ {key} :
                  RecordsOf(_memory_store', other) = RecordsOf(_memory_store, other)
    /\ (fb_last'.op # "record_decision" \/ fb_last'.raised) =>
         _memory_store' = _memory_store

RejectionReasons ==
    { REJECTION_KEYWORDS[i].reason : i \in DOMAIN REJECTION_KEYWORDS }
      \cup {"other"}
ApprovalReasons ==
    { APPROVAL_KEYWORDS[i].reason : i \in DOMAIN APPROVAL_KEYWORDS }

\* the recorded decisions of a table, as (pair key, position) pairs
RecordedFor(table_id) ==
    { e \in (DOMAIN _memory_store) \X (1..MaxDecisions) :
        /\ e[1] = PairKey(e[1][1], table_id)
        /\ e[2] \in DOMAIN _memory_store[e[1]] }

\* the recorded REJECTED decisions of a table that carry a justification
\* classified under the reason
RecordedRejections(table_id, reason) ==
    Cardinality({ e \in RecordedFor(table_id) :
        LET r == _memory_store[e[1]][e[2]]
        IN  /\ r.outcome = "REJECTED"
            /\ r.justification_text # <<>>
            /\ r.justification_category = reason })

\* C29 (first part): the histogram of a table has an entry for a rejection
\* reason only, with the number of its recorded rejections of that reason
C29_Histogram ==
    \A table_id \in FbTableIds :
        LET patterns == get_rejection_patterns(table_id)
        IN  /\ DOMAIN patterns \subseteq RejectionReasons
            /\ \A reason \in RejectionReasons :
                  (IF reason \in DOMAIN patterns THEN patterns[reason] ELSE 0)
                     = RecordedRejections(table_id, reason)

\* C29 (second part): get_tables_with_issue lists the tables in
\* non-increasing order of count
C29_Sorted ==
    \A reason \in RejectionReasons \cup ApprovalReasons :
        LET listed == get_tables_with_issue(reason)
        IN  \A i, j \in DOMAIN listed : i < j => listed[i][2] >= listed[j][2]

\* C29: get_rejection_patterns(table_id) returns, per rejection reason, the
\* number of recorded REJECTED decisions with a justification for that
\* table classified under it, with no entries for approval categories, and
\* get_tables_with_issue(reason) lists tables in non-increasing order of count.
C29_RejectionPatterns == C29_Histogram /\ C29_Sorted

\* C30: every decision recorded with a non-empty justification, whatever
\* its outcome, has exactly one category of the closed vocabulary: a
\* rejection reason for a rejection, an approval reason for an approval.
C30_Categorised ==
    \A key \in DOMAIN _memory_store :
        \A i \in DOMAIN _memory_store[key] :
            LET r == _memory_store[key][i]
            IN  r.justification_text # <<>> =>
                  /\ r.justification_category
                        \in RejectionReasons \cup ApprovalReasons
                  /\ r.outcome = "REJECTED" =>
                        r.justification_category \in RejectionReasons
                  /\ r.outcome = "APPROVED" =>
                        r.justification_category \in ApprovalReasons

\* C30 without the MODIFIED decisions: rejections and approvals are
\* categorised
C30_RejectedApproved ==
    \A key \in DOMAIN _memory_store :
        \A i \in DOMAIN _memory_store[key] :
            LET r == _memory_store[key][i]
            IN  r.justification_text # <<>> =>
                  /\ r.outcome = "REJECTED" =>
                        r.justification_category \in RejectionReasons
                  /\ r.outcome = "APPROVED" =>
                        r.justification_category \in ApprovalReasons

\* the stored decisions of a table classified under a category
StoredUnder(table_id, category) ==
    Cardinality({ e \in RecordedFor(table_id) :
                    _memory_store[e[1]][e[2]].justification_category
                      = category })

\* a record_decision call that raised
FailedRecordStep ==
    fb_last'.op = "record_decision" /\ fb_last'.raised

\* C35: a record_decision that fails (the PostgreSQL path raises) leaves the
\* store as it was: decision log, score cache and per-table category
\* statistics unchanged; so the statistics of every table always equal the
\* counts its stored decisions imply.
C35_FailedRecordNoEffect ==
    /\ [][ FailedRecordStep =>
             UNCHANGED <<_memory_store, _score_cache, _cache_updated,
                         _category_stats>> ]_vars
    /\ [](\A t \in FbTableIds :
            \A cat \in DOMAIN get_rejection_patterns(t) :
                get_rejection_patterns(t)[cat] = StoredUnder(t, cat))

-----------------------------------------------------------------------------
(***************************************************************************)
(* Part 9: the ambiguity stage (graph.py 63-66).  The detector the wrapper *)
(* awaits, nodes/ambiguity_check.py, is not in the source tree; it is      *)
(* taken from its description: a read of the final ranking that compares   *)
(* the top distinct tables with a margin.  Scores and the margin are in    *)
(* hundredths.                                                             *)
(***************************************************************************)

AmbTableIds == {1, 2, 3}

\* the domain a table of the catalog belongs to
TableDomain(table_id) == IF table_id = 3 THEN "d2" ELSE "d1"

AmbScores == {80, 85, 90}

AmbMargins == {0, 5}

MaxRanking == 3

AmbCandidates == [table_id : AmbTableIds, score : AmbScores]

\* the rankings the stage can be given: best first
AmbRankings ==
    { r \in UNION { [1..n -> AmbCandidates] : n \in 0..MaxRanking } :
        \A i \in 1..(Len(r) - 1) : r[i].score >= r[i + 1].score }

RECURSIVE DistinctTables(_, _)
\* the candidates in order, one per table
DistinctTables(ranking, seen) ==
    IF ranking = <<>> THEN <<>>
    ELSE IF Head(ranking).table_id \in seen
         THEN DistinctTables(Tail(ranking), seen)
         ELSE <<Head(ranking)>> \o
              DistinctTables(Tail(ranking), seen \cup {Head(ranking).table_id})

\* the cap on the options offered
MaxOptions == 5

NotAmbiguous ==
    [type |-> "NONE", is_ambiguous |-> FALSE, clarifying_question |-> "",
     options |-> <<>>]

\* one option per close candidate
OptionOf(candidate) ==
    [id |-> candidate.table_id, label |-> candidate.table_id,
     table_id |-> candidate.table_id]

\* a mutant of the detector: candidates exactly the margin apart are told apart
CheckStrictlyWithin(ranking, margin) ==
    LET d == DistinctTables(ranking, {})
    IN  IF Len(d) < 2 \/ d[1].score - d[2].score >= margin
        THEN NotAmbiguous
        ELSE [type |-> "TABLE_AMBIGUOUS", is_ambiguous |-> TRUE,
              clarifying_question |-> "which",
              options |-> <<OptionOf(d[1]), OptionOf(d[2])>>]

\* the detector
_check(ranking, margin) ==
    LET d == DistinctTables(ranking, {})
        close == SelectSeq(d, LAMBDA c : d[1].score - c.score <= margin)
    IN  IF Len(d) < 2 THEN NotAmbiguous
        ELSE IF d[1].score - d[2].score > margin THEN NotAmbiguous
        ELSE [type |-> IF TableDomain(d[1].table_id) # TableDomain(d[2].table_id)
                       THEN "DOMAIN_AMBIGUOUS" ELSE "TABLE_AMBIGUOUS",
              is_ambiguous |-> TRUE,
              clarifying_question |-> "which",
              options |-> [i \in 1..Min(Len(close), MaxOptions) |->
                              OptionOf(close[i])]]

\* graph.py 63-66: the wrapper returns the detector's partial update
check_ambiguity ==
    /\ amb_out.pc = "ready"
    /\ amb_out' = [pc |-> "done",
                   update |-> [ambiguity_result |->
                                  _check(amb_in.ranking, amb_in.margin)]]
    /\ UNCHANGED amb_in

AmbStart ==
    /\ amb_in \in [ranking : AmbRankings, margin : AmbMargins]
    /\ amb_out = [pc |-> "ready"]

AmbOff ==
    /\ amb_in = [ranking |-> <<>>, margin |-> 0]
    /\ amb_out = [pc |-> "off"]

(***************************************************************************)
(* Claim about the ambiguity stage                                         *)
(***************************************************************************)

AmbResult == amb_out.update.ambiguity_result

TopGap == amb_in.ranking[1].score - amb_in.ranking[2].score

\* C21: the stage returns is_ambiguous=False, type NONE, when the top score
\* exceeds the second by more than the margin or fewer than two distinct
\* tables remain; it returns is_ambiguous=True with at least two options when
\* the top two candidates are distinct tables within the margin; its update
\* writes neither a score nor the ranking.
C21_AmbiguityGate ==
    amb_out.pc = "done" =>
        /\ ( \/ Cardinality({ amb_in.ranking[i].table_id :
                                i \in DOMAIN amb_in.ranking }) < 2
             \/ (Len(amb_in.ranking) >= 2 /\ TopGap > amb_in.margin) ) =>
               (~AmbResult.is_ambiguous /\ AmbResult.type = "NONE")
        /\ ( /\ Len(amb_in.ranking) >= 2
             /\ amb_in.ranking[1].table_id # amb_in.ranking[2].table_id
             /\ TopGap <= amb_in.margin ) =>
               ( /\ AmbResult.is_ambiguous
                 /\ AmbResult.type # "NONE"
                 /\ Len(AmbResult.options) >= 2
                 /\ { AmbResult.options[i].table_id : i \in 1..2 } =
                      { amb_in.ranking[i].table_id : i \in 1..2 } )
        /\ DOMAIN amb_out.update = {"ambiguity_result"}

\* two distinct tables exactly the margin apart, found ambiguous
C21_Witness ==
    /\ amb_out.pc = "done"
    /\ Len(amb_in.ranking) >= 2
    /\ amb_in.ranking[1].table_id # amb_in.ranking[2].table_id
    /\ amb_in.margin > 0
    /\ TopGap = amb_in.margin
    /\ AmbResult.is_ambiguous

\* a clear winner
C21_WitnessClear ==
    /\ amb_out.pc = "done"
    /\ Len(amb_in.ranking) >= 2
    /\ amb_in.ranking[1].table_id # amb_in.ranking[2].table_id
    /\ TopGap > amb_in.margin
    /\ ~AmbResult.is_ambiguous

-----------------------------------------------------------------------------
(***************************************************************************)
(* Part 10: search_with_domain_fallback (optimized_retriever.py 521-601),  *)
(* run over the result list search returns (Part 4).                       *)
(***************************************************************************)

\* optimized_retriever.py 583: 0.7
HighConfidence == <<7, 10>>

\* optimized_retriever.py 526: confidence_threshold (0.5 is the default)
ConfidenceThresholds == { <<1, 2>>, <<4, 5>> }

\* optimized_retriever.py 384: result["domain"]
ResultDomain(r) == Catalog(r.id).domain

RECURSIVE DomainKeys(_, _)
\* optimized_retriever.py 573-577: the keys of domain_groups in insertion order
DomainKeys(res, seen) ==
    IF res = <<>> THEN <<>>
    ELSE IF ResultDomain(Head(res)) \in seen THEN DomainKeys(Tail(res), seen)
         ELSE <<ResultDomain(Head(res))>> \o
              DomainKeys(Tail(res), seen \cup {ResultDomain(Head(res))})

\* optimized_retriever.py 573-577: domain_groups[domain]
DomainGroup(res, domain) == SelectSeq(res, LAMBDA r : ResultDomain(r) = domain)

\* optimized_retriever.py 580: max(keys, key=len of group), the first largest
PrimaryDomain(res) ==
    LET keys == DomainKeys(res, {})
        size(i) == Len(DomainGroup(res, keys[i]))
    IN  keys[CHOOSE i \in DOMAIN keys :
                /\ \A j \in DOMAIN keys : size(j) <= size(i)
                /\ \A j \in 1..(i - 1) : size(j) < size(i)]

\* optimized_retriever.py 583-595
ConfidenceBand(top_score, confidence_threshold) ==
    IF FracGeq(top_score, HighConfidence) THEN "high"
    ELSE IF FracGeq(top_score, confidence_threshold) THEN "medium"
    ELSE "low"

\* optimized_retriever.py 560-601: the dict built from the results of search
domain_fallback(res, confidence_threshold) ==
    IF res = <<>>
    THEN [results |-> <<>>, confidence |-> "low", primary_domain |-> None,
          domain_groups |-> <<>>]
    ELSE [results |-> res,
          confidence |-> ConfidenceBand(res[1].score, confidence_threshold),
          primary_domain |-> PrimaryDomain(res),
          domain_groups |->
              [i \in DOMAIN DomainKeys(res, {}) |->
                  DomainGroup(res, DomainKeys(res, {})[i])]]

\* optimized_retriever.py 551-601: search has returned, the dict is built
SearchWithDomainFallback ==
    /\ s_pc = "returned"
    /\ fallback.pc = "called"
    /\ fallback' = [pc |-> "done",
                    confidence_threshold |-> fallback.confidence_threshold,
                    ret |-> domain_fallback(returned_results,
                                            fallback.confidence_threshold)]

\* Longest result list search hands back here, and longest index list the
\* rerank collaborator answers with.
MaxFallbackLen == 5
MaxFallbackPicks == 2

FallbackScores == { <<3, 10>>, <<6, 10>>, <<8, 10>> }

\* the fusion rankings of n candidates: ids by rank, scores best first
FallbackRankings(n) ==
    { r \in [1..n -> [id : 1..n, score : FallbackScores]] :
        /\ \A j \in 1..n : r[j].id = j
        /\ \A j \in 1..(n - 1) : FracGeq(r[j].score, r[j + 1].score) }

FallbackReplies ==
    { <<"error">> }
      \cup { <<"order", l>> : l \in SeqsUpTo(0..Len(results), MaxFallbackPicks) }

FallbackStart ==
    /\ s_query = <<>>
    /\ max_results = MaxFallbackLen
    /\ expanded_query = <<>>
    /\ tables_cache = {}
    /\ name_results = <<>> /\ desc_results = <<>> /\ keywords_results = <<>>
    /\ scores = [i \in {} |-> 0] /\ score_order = <<>>
    /\ results \in UNION { FallbackRankings(n) : n \in 0..MaxFallbackLen }
    /\ enable_rerank = FALSE /\ llm_reply = NoReply
    /\ returned_results = <<>> /\ expander_cache = [k \in {} |-> <<>>]
    /\ s_error = None /\ s_pc = "fused"
    /\ fallback \in [pc : {"called"}, confidence_threshold : ConfidenceThresholds]

FallbackOff == fallback = [pc |-> "off"]

(***************************************************************************)
(* Claim about the domain fallback                                         *)
(***************************************************************************)

\* the largest combined score among the results
HighestScore(res) ==
    res[CHOOSE i \in DOMAIN res :
            \A j \in DOMAIN res : FracGeq(res[i].score, res[j].score)].score

\* the domains with the most results
MostPopulous(res) ==
    LET domains == { ResultDomain(res[i]) : i \in DOMAIN res }
        size(d) == Cardinality({ i \in DOMAIN res : ResultDomain(res[i]) = d })
    IN  { d \in domains : \A e \in domains : size(e) <= size(d) }

ClaimedBand(res, confidence_threshold) ==
    IF res = <<>> THEN "low"
    ELSE IF FracGeq(HighestScore(res), HighConfidence) THEN "high"
    ELSE IF FracGeq(HighestScore(res), confidence_threshold) THEN "medium"
    ELSE "low"

C23_PrimaryDomain ==
    fallback.pc = "done" =>
        IF fallback.ret.results = <<>>
        THEN fallback.ret.primary_domain = None
        ELSE fallback.ret.primary_domain \in MostPopulous(fallback.ret.results)

C23_Confidence ==
    fallback.pc = "done" =>
        fallback.ret.confidence =
            ClaimedBand(fallback.ret.results, fallback.confidence_threshold)

\* C23: with reranking enabled or disabled, the confidence is 'high' when
\* the highest combined score among the returned results is >= 0.7, 'medium'
\* when it is below 0.7 and >= confidence_threshold, 'low' otherwise and for
\* an empty result set (primary_domain None); primary_domain is a domain
\* with the largest number of returned results.
C23_DomainFallback == C23_Confidence /\ C23_PrimaryDomain

-----------------------------------------------------------------------------
(***************************************************************************)
(* Part 11: CDCSyncService (indexing/cdc_service.py) over the retriever of *)
(* Part 6.  A record of the dataframe is a dict: a field it lacks is not    *)
(* in its DOMAIN.  The collections are persistent (PersistentClient,        *)
(* optimized_retriever.py 98-100) while _tables_cache and _inverted_index   *)
(* are rebuilt empty by every new process (85-88).                          *)
(***************************************************************************)

\* cdc_service.py 64-67
HASH_FIELDS ==
    { "name", "display_name", "description", "domain", "keywords",
      "owner_name", "data_layer", "is_golden_source" }

\* record.get(field): None for a missing field
NoValue == [none |-> TRUE]
RecordGet(record, field) ==
    IF field \in DOMAIN record THEN [value |-> record[field]] ELSE NoValue

\* record.get(field, default)
GetOr(record, field, default) ==
    IF field \in DOMAIN record THEN record[field] ELSE default

\* record[field] = value on a dict
SetField(record, field, value) ==
    [k \in DOMAIN record \cup {field} |->
        IF k = field THEN value ELSE record[k]]

\* `if table_id:` (cdc_service.py 125, 107, 196): the id is there and truthy
HasId(record) == "id" \in DOMAIN record /\ record.id # 0

\* cdc_service.py 84-94: _compute_hash.  The digest is modelled by the data
\* it is taken of (sha256 of the canonical JSON, collisions left out).
_compute_hash(record) ==
    [field \in HASH_FIELDS |->
        IF field = "keywords" /\ field \in DOMAIN record
        THEN [value |-> SortedTexts(record[field])]
        ELSE RecordGet(record, field)]

\* cdc_service.py 96-112: _load_existing_hashes: every id list_tables
\* returns (optimized_retriever.py 683-695: the name collection), hashed
\* from what get_table returns for it
_load_existing_hashes ==
    [id \in { i \in DOMAIN _collections["name"] : get_table(i) # NoTable } |->
        _compute_hash(get_table(id))]

ChangeRecord(table_id, change_type) ==
    [table_id |-> table_id, change_type |-> change_type]

\* cdc_service.py 130-155: the change type of one incoming record
ChangeType(record, existing_hashes) ==
    IF record.id \notin DOMAIN existing_hashes THEN "INSERT"
    ELSE IF existing_hashes[record.id] # _compute_hash(record) THEN "UPDATE"
    ELSE "UNCHANGED"

RECURSIVE IncomingChanges(_, _)
\* cdc_service.py 123-155: the loop over the incoming records
IncomingChanges(incoming, existing_hashes) ==
    IF incoming = <<>> THEN <<>>
    ELSE LET record == Head(incoming)
             rest   == IncomingChanges(Tail(incoming), existing_hashes)
         IN  IF ~HasId(record) THEN rest
             ELSE << ChangeRecord(record.id,
                                  ChangeType(record, existing_hashes)) >>
                  \o rest

RECURSIVE Ascending(_)
\* the ids of a set in ascending order (the order the collection lists them)
Ascending(ids) ==
    IF ids = {} THEN <<>>
    ELSE LET least == CHOOSE i \in ids : \A j \in ids : i <= j
         IN  <<least>> \o Ascending(ids \ {least})

incoming_ids(incoming) ==
    { incoming[i].id : i \in { j \in DOMAIN incoming : HasId(incoming[j]) } }

\* cdc_service.py 114-167: _detect_changes
_detect_changes(incoming, existing_hashes) ==
    IncomingChanges(incoming, existing_hashes)
      \o [k \in 1..Cardinality(DOMAIN existing_hashes \ incoming_ids(incoming)) |->
            ChangeRecord(
              Ascending(DOMAIN existing_hashes \ incoming_ids(incoming))[k],
              "DELETE")]

\* cdc_service.py 196: incoming_by_id: the last record of each id
incoming_by_id(dataframe) ==
    [id \in incoming_ids(dataframe) |->
        dataframe[CHOOSE i \in DOMAIN dataframe :
                    /\ HasId(dataframe[i]) /\ dataframe[i].id = id
                    /\ \A j \in DOMAIN dataframe :
                          (HasId(dataframe[j]) /\ dataframe[j].id = id) => j <= i]]

\* the retriever's stored data, threaded through the loop of sync
StoreNow ==
    [collections |-> _collections, inverted_index |-> _inverted_index,
     tables_cache |-> _tables_cache]

\* the fields index_table reads with a default (optimized_retriever.py
\* 231-248, 160-170)
Filled(table) ==
    [k \in DOMAIN table \cup
           {"name", "display_name", "description", "keywords", "domain",
            "owner_name"} |->
        IF k \in DOMAIN table THEN table[k] ELSE <<>>]

\* optimized_retriever.py 201-275: index_table(record) as sync calls it
\* (enrichment on): the dict is enriched in place, written to the three
\* views and the inverted index, and cached
IndexInto(store, record, reply) ==
    LET table == enrich_table(SetField(record, "keywords",
                                       GetOr(record, "keywords", <<>>)),
                              reply)
    IN  [collections |->
            [v \in Views |-> Upsert(store.collections[v], table.id,
                                    ViewEntry(v, Filled(table)))],
         inverted_index |->
            _build_inverted_index_entry(store.inverted_index, table.id,
                                        Filled(table)),
         tables_cache |-> CachePut(store.tables_cache, table.id, table)]

\* optimized_retriever.py 650-662: delete_table when its deletes succeed
DeleteFrom(store, id) ==
    [collections |-> [v \in Views |-> Remove(store.collections[v], id)],
     inverted_index |-> store.inverted_index,
     tables_cache |-> CachePop(store.tables_cache, id)]

\* cdc_service.py 193: CDCResult(success=True, changes=[])
CDCResult ==
    [success |-> TRUE, inserts |-> 0, updates |-> 0, deletes |-> 0,
     unchanged |-> 0, errors |-> 0, changes |-> <<>>]

\* Mutant of Applied: the change is applied although dry_run is set.
AppliedAlways(dry_run, store, written) == written

\* cdc_service.py 201, 209, 217: `if not dry_run:` around each retriever
\* call: the store a change leaves behind
Applied(dry_run, store, written) == IF dry_run THEN store ELSE written

\* Mutant of ApplyChange: the change is listed in result.changes, nothing is
\* counted.
ApplyChangeListed(change, run, call) ==
    [store |-> run.store,
     result |-> [run.result EXCEPT !.changes = Append(@, change)]]

\* cdc_service.py 199-232: one turn of the loop of sync.  call.failing
\* holds the ids for which index_table raises (its embedding call fails,
\* optimized_retriever.py 236-238, before anything is written).
ApplyChange(change, run, call) ==
    LET result == run.result
        type   == change.change_type
    IN  CASE type \in {"INSERT", "UPDATE"} ->
               IF ~call.dry_run /\ change.table_id \in call.failing
               THEN [store |-> run.store,
                     result |-> [result EXCEPT !.errors = @ + 1,
                                               !.success = FALSE]]
               ELSE [store |->
                        Applied(call.dry_run, run.store,
                                IndexInto(run.store,
                                  incoming_by_id(call.dataframe)[change.table_id],
                                  call.reply)),
                     result |->
                        IF type = "INSERT"
                        THEN [result EXCEPT !.inserts = @ + 1,
                                            !.changes = Append(@, change)]
                        ELSE [result EXCEPT !.updates = @ + 1,
                                            !.changes = Append(@, change)]]
          [] type = "DELETE" ->
               IF call.apply_deletes
               THEN [store |-> Applied(call.dry_run, run.store,
                                       DeleteFrom(run.store, change.table_id)),
                     result |-> [result EXCEPT !.deletes = @ + 1,
                                               !.changes = Append(@, change)]]
               ELSE run
          [] OTHER ->
               [store |-> run.store,
                result |-> [result EXCEPT !.unchanged = @ + 1]]

RECURSIVE ApplyChanges(_, _, _)
ApplyChanges(changes, run, call) ==
    IF changes = <<>> THEN run
    ELSE CHOOSE out \in
           { ApplyChanges(Tail(changes), next, call) :
               next \in {ApplyChange(Head(changes), run, call)} } : TRUE

\* cdc_service.py 169-238: what sync does to the store and returns
sync(call) ==
    LET existing_hashes == _load_existing_hashes
        changes == CHOOSE c \in {_detect_changes(call.dataframe,
                                                 existing_hashes)} : TRUE
    IN  ApplyChanges(changes, [store |-> StoreNow, result |-> CDCResult],
                     call)

MaxDataframe == 2

\* The records of the dataframes: both versions of table 1, a record
\* without an id and a record of table 2 without a name.
CdcRecords ==
    { SetField(StoreTable(1, 1), "data_layer", <<"a">>),
      SetField(StoreTable(1, 2), "is_golden_source", TRUE),
      [name |-> Str_ab, domain |-> <<"a", "b">>],
      [id |-> 2, domain |-> <<"a", "b">>] }

DataframesUpTo(max_len) == UNION { [1..n -> CdcRecords] : n \in 0..max_len }

Dataframes == DataframesUpTo(MaxDataframe)

\* the dataframes of the first sync of a catalog
MaxFirstDataframe == 1
FirstDataframes == DataframesUpTo(MaxFirstDataframe)

\* One sync call: sync(dataframe, apply_deletes, dry_run), with the reply
\* the enricher gives to its index_table calls and the ids whose
\* index_table raises (neither is consulted by a dry run).
CdcCalls ==
    { call \in [dataframe : Dataframes, apply_deletes : BOOLEAN,
                dry_run : BOOLEAN, reply : EnrichReplies,
                failing : {{}, {1}}] :
        call.dry_run => call.reply = <<"error">> /\ call.failing = {} }

\* cdc_service.py 169-238: sync
Sync(call, op) ==
    \E run \in {sync(call)} :
        /\ _collections' = run.store.collections
        /\ _inverted_index' = run.store.inverted_index
        /\ _tables_cache' = run.store.tables_cache
        /\ cdc_last' = [op |-> op, call |-> call, ret |-> run.result]
        /\ UNCHANGED <<index_calls, st_last>>

\* The first sync of a catalog applies its changes and its retriever
\* calls succeed (the store is empty: apply_deletes has nothing to act on).
FirstCalls ==
    [dataframe : FirstDataframes, apply_deletes : {TRUE}, dry_run : {FALSE},
     reply : EnrichReplies, failing : {{}}]

FirstSync(call) ==
    /\ cdc_last.op = "start"
    /\ Sync(call, "first")

\* A later sync, with any arguments.
NextSync(call) ==
    /\ cdc_last.op \in {"first", "restart"}
    /\ Sync(call, "sync")

\* cdc_service.py 240-246: preview(dataframe) is sync(dataframe,
\* dry_run=True) with apply_deletes at its default
Preview(dataframe) ==
    NextSync([dataframe |-> dataframe, apply_deletes |-> TRUE,
              dry_run |-> TRUE, reply |-> <<"error">>, failing |-> {}])

\* optimized_retriever.py 82-100: a new process: the collections persist,
\* the cache and the inverted index start empty
Restart ==
    /\ cdc_last.op = "first"
    /\ _tables_cache' = Empty
    /\ _inverted_index' = Empty
    /\ cdc_last' = [cdc_last EXCEPT !.op = "restart"]
    /\ UNCHANGED <<_collections, index_calls, st_last>>

CdcStart ==
    /\ _collections = [v \in Views |-> Empty]
    /\ _inverted_index = Empty
    /\ _tables_cache = Empty
    /\ index_calls = [c \in Callers |-> Idle]
    /\ st_last = None
    /\ cdc_last = [op |-> "start"]

CdcOff == cdc_last = [op |-> "off"]

\* ---- claims on sync ----

\* a step that is a sync call made after the first one
LaterSyncStep == cdc_last.op # "sync" /\ cdc_last'.op = "sync"

\* what the same call reports, from the same store, when it is not a dry
\* run and its retriever calls succeed
RealReport(call, reply) ==
    sync([call EXCEPT !.dry_run = FALSE, !.reply = reply,
                      !.failing = {}]).result

\* C24: a sync with dry_run=True (preview included) leaves the indexed ids,
\* every stored record, the inverted index and the metadata cache as they
\* were, and returns the counts and changes that a real sync of the same
\* dataframe over the same store reports.
C24_DryRunFrame ==
    [][ (LaterSyncStep /\ cdc_last'.call.dry_run) =>
           /\ UNCHANGED <<_collections, _inverted_index, _tables_cache>>
           /\ \A reply \in EnrichReplies :
                 cdc_last'.ret = RealReport(cdc_last'.call, reply) ]_vars

\* a dry run over a filled store that reports a delete and an insert or update
C24_Witness ==
    /\ cdc_last.op = "sync" /\ cdc_last.call.dry_run
    /\ DOMAIN _tables_cache # {}
    /\ cdc_last.ret.deletes > 0
    /\ cdc_last.ret.inserts + cdc_last.ret.updates > 0


\* a step that is a sync call
SyncStep == cdc_last'.op \in {"first", "sync"} /\ cdc_last'.op # cdc_last.op

\* the ids indexed when the sync starts, and the record each was indexed
\* from (the first sync applied all its changes)
IndexedIds == DOMAIN _collections["name"]
IndexedRecord(id) == incoming_by_id(cdc_last.call.dataframe)[id]

\* the changes the sync detected, recomputed from the store it started on
Detected == _detect_changes(cdc_last'.call.dataframe, _load_existing_hashes)

ChangesOf(id) == { k \in DOMAIN Detected : Detected[k].table_id = id }

\* the keywords as a multiset: their order does not count
KeywordBag(record) ==
    IF "keywords" \in DOMAIN record
    THEN [kw \in Range(record.keywords) |->
            Cardinality({ i \in DOMAIN record.keywords :
                            record.keywords[i] = kw })]
    ELSE NoValue

SameHashedFields(a, b) ==
    /\ \A field \in HASH_FIELDS \ {"keywords"} :
          RecordGet(a, field) = RecordGet(b, field)
    /\ KeywordBag(a) = KeywordBag(b)

\* the change type the claim gives an id
ClaimedType(id) ==
    LET incoming == cdc_last'.call.dataframe
    IN  IF id \notin IndexedIds THEN "INSERT"
        ELSE IF id \notin incoming_ids(incoming) THEN "DELETE"
        ELSE IF SameHashedFields(incoming_by_id(incoming)[id],
                                 IndexedRecord(id))
             THEN "UNCHANGED" ELSE "UPDATE"

\* every id with an id field, incoming or indexed
KnownIds ==
    IndexedIds \cup
    { cdc_last'.call.dataframe[i].id :
        i \in { j \in DOMAIN cdc_last'.call.dataframe :
                  "id" \in DOMAIN cdc_last'.call.dataframe[j] } }

\* C25 (first part): every incoming or indexed id gets exactly one change
C25_ClassifiedOnce ==
    [][ SyncStep => \A id \in KnownIds : Cardinality(ChangesOf(id)) = 1 ]_vars

\* C25 (second part): every change has the type the claim gives its id
C25_ClaimedTypes ==
    [][ SyncStep =>
          \A k \in DOMAIN Detected :
             Detected[k].change_type = ClaimedType(Detected[k].table_id) ]_vars

\* C25 (last part): a dataframe that misses exactly one indexed id, synced
\* with apply_deletes, reports exactly one DELETE and deletes = 1
C25_OneDelete ==
    [][ ( /\ SyncStep /\ cdc_last'.call.apply_deletes
          /\ Cardinality(IndexedIds \ incoming_ids(cdc_last'.call.dataframe)) = 1 )
        => /\ cdc_last'.ret.deletes = 1
           /\ Cardinality({ k \in DOMAIN cdc_last'.ret.changes :
                              cdc_last'.ret.changes[k].change_type = "DELETE" }) = 1
      ]_vars

\* C25: change detection classifies each table id exactly once: INSERT for
\* an incoming id that is not indexed, UNCHANGED for an incoming id whose
\* hashed fields (keywords order-normalised) equal those of the record
\* previously indexed under it, UPDATE otherwise, DELETE for an indexed id
\* absent from the dataframe; a dataframe missing exactly one indexed id,
\* with apply_deletes, yields exactly one DELETE and deletes = 1.
C25_ChangeDetection ==
    [][ SyncStep =>
          /\ \A id \in KnownIds : Cardinality(ChangesOf(id)) = 1
          /\ \A k \in DOMAIN Detected :
                Detected[k].change_type = ClaimedType(Detected[k].table_id)
          /\ ( /\ cdc_last'.call.apply_deletes
               /\ Cardinality(IndexedIds
                                \ incoming_ids(cdc_last'.call.dataframe)) = 1 )
             => /\ cdc_last'.ret.deletes = 1
                /\ Cardinality({ k \in DOMAIN cdc_last'.ret.changes :
                       cdc_last'.ret.changes[k].change_type = "DELETE" }) = 1
      ]_vars

\* cdc_service.py 251-265: DATAFRAME_SCHEMA: "required": ["id", "name"]
RequiredFields == {"id", "name"}

LacksRequired(record) == ~(RequiredFields \subseteq DOMAIN record)

InvalidRecords(dataframe) ==
    { i \in DOMAIN dataframe : LacksRequired(dataframe[i]) }

\* the ids that only records lacking a required field bring
InvalidOnlyIds(dataframe) ==
    { id \in incoming_ids(dataframe) :
        \A i \in DOMAIN dataframe :
           (HasId(dataframe[i]) /\ dataframe[i].id = id)
               => LacksRequired(dataframe[i]) }

\* C26 (first part): a record lacking a required field is not indexed
C26_InvalidSkipped ==
    [][ SyncStep =>
          \A k \in DOMAIN cdc_last'.ret.changes :
             cdc_last'.ret.changes[k].change_type \in {"INSERT", "UPDATE"}
               => cdc_last'.ret.changes[k].table_id
                     \notin InvalidOnlyIds(cdc_last'.call.dataframe) ]_vars

\* C26 (second part): every record lacking a required field is counted in
\* errors
C26_InvalidCounted ==
    [][ SyncStep =>
          cdc_last'.ret.errors
            >= Cardinality(InvalidRecords(cdc_last'.call.dataframe)) ]_vars

\* C26: during a sync every incoming record lacking a required field (id
\* or name) is skipped, that is not indexed, and counted in errors.
C26_InvalidRecords ==
    [][ SyncStep =>
          /\ \A k \in DOMAIN cdc_last'.ret.changes :
                cdc_last'.ret.changes[k].change_type \in {"INSERT", "UPDATE"}
                  => cdc_last'.ret.changes[k].table_id
                        \notin InvalidOnlyIds(cdc_last'.call.dataframe)
          /\ cdc_last'.ret.errors
               >= Cardinality(InvalidRecords(cdc_last'.call.dataframe)) ]_vars

\* C32: for every sync result, inserts + updates + deletes is the number of
\* entries of changes; success is true exactly when errors is 0; and with
\* apply_deletes=True, inserts + updates + deletes + unchanged + errors is
\* the number of changes detected, whichever index_table calls fail.
C32_Accounting ==
    [][ SyncStep =>
          LET ret == cdc_last'.ret
          IN  /\ ret.inserts + ret.updates + ret.deletes = Len(ret.changes)
              /\ ret.success <=> ret.errors = 0
              /\ cdc_last'.call.apply_deletes =>
                    ret.inserts + ret.updates + ret.deletes
                      + ret.unchanged + ret.errors = Len(Detected) ]_vars

\* C32 witness: a sync with apply_deletes=True in which an index_table call
\* failed and another change was applied and counted.
C32_Witness ==
    /\ cdc_last.op = "sync"
    /\ ~cdc_last.call.dry_run /\ cdc_last.call.apply_deletes
    /\ cdc_last.ret.errors > 0 /\ ~cdc_last.ret.success
    /\ Len(cdc_last.ret.changes) > 0

\* a sync that applies inserts, updates and deletes and reports no error
ConvergingSync(last) ==
    /\ last.op \in {"first", "sync"}
    /\ ~last.call.dry_run /\ last.call.apply_deletes
    /\ last.ret.errors = 0

\* C33: sync converges and is idempotent.  After a sync(D) that is not a
\* dry run, has apply_deletes=True and reports no errors, the indexed ids
\* are the ids of D; and the sync that immediately follows with a dataframe
\* of the same record contents reports inserts = updates = deletes = 0,
\* with the cache warm or after a restart, whatever the enricher replied.
C33_ConvergesIdempotent ==
    [][ /\ (SyncStep /\ ConvergingSync(cdc_last')) =>
              IndexedIds' = incoming_ids(cdc_last'.call.dataframe)
        /\ ( /\ LaterSyncStep
             /\ ConvergingSync([cdc_last EXCEPT !.op = "first"])
             /\ cdc_last'.call.dataframe = cdc_last.call.dataframe ) =>
              /\ cdc_last'.ret.inserts = 0
              /\ cdc_last'.ret.updates = 0
              /\ cdc_last'.ret.deletes = 0 ]_vars

-----------------------------------------------------------------------------
(***************************************************************************)
(* Part 12: the admin API (admin_api.py): the two-step cleanup.  Time is   *)
(* the value datetime.now() returns, in seconds; it advances between       *)
(* requests.  A request handler runs without suspension up to the          *)
(* retriever calls of confirm_cleanup, which are taken with the rest of    *)
(* the handler as one step.  secrets.token_urlsafe(32) is taken to return  *)
(* a token never returned before.                                          *)
(***************************************************************************)

\* admin_api.py 46-47
CLEANUP_COOLDOWN_SECONDS == 300
TOKEN_EXPIRY_SECONDS == 120

\* the clock advances in steps of a minute, up to MaxTime
ClockStep == 60
MaxTime == 360

MaxTokens == 2
Tokens == 1..MaxTokens

REQUIRED_CONFIRMATION == "DELETE ALL DATA"
ConfirmTexts == { REQUIRED_CONFIRMATION, "delete all data" }

\* admin_api.py 77-89: check_rate_limit: TRUE when it raises 429
check_rate_limit ==
    /\ _last_cleanup_time # <<>>
    /\ now - _last_cleanup_time[1] < CLEANUP_COOLDOWN_SECONDS

\* admin_api.py 92-110: generate_confirmation_token: the pending tokens
\* after the new one is stored and the expired ones are dropped
generate_confirmation_token(token, action) ==
    LET stored == [t \in DOMAIN _pending_tokens \cup {token} |->
                     IF t = token
                     THEN [expires_at |-> now + TOKEN_EXPIRY_SECONDS,
                           action |-> action]
                     ELSE _pending_tokens[t]]
    IN  [t \in { u \in DOMAIN stored : ~(stored[u].expires_at < now) } |->
            stored[t]]

\* Mutant of verify_confirmation_token: an accepted token stays pending.
VerifyWithoutConsuming(token, expected_action) ==
    IF token \notin DOMAIN _pending_tokens
    THEN [ok |-> FALSE, pending |-> _pending_tokens]
    ELSE IF now > _pending_tokens[token].expires_at
    THEN [ok |-> FALSE, pending |-> Remove(_pending_tokens, token)]
    ELSE IF _pending_tokens[token].action # expected_action
    THEN [ok |-> FALSE, pending |-> _pending_tokens]
    ELSE [ok |-> TRUE, pending |-> _pending_tokens]

\* admin_api.py 113-131: verify_confirmation_token: its return value and
\* the pending tokens it leaves
verify_confirmation_token(token, expected_action) ==
    IF token \notin DOMAIN _pending_tokens
    THEN [ok |-> FALSE, pending |-> _pending_tokens]
    ELSE IF now > _pending_tokens[token].expires_at
    THEN [ok |-> FALSE, pending |-> Remove(_pending_tokens, token)]
    ELSE IF _pending_tokens[token].action # expected_action
    THEN [ok |-> FALSE, pending |-> _pending_tokens]
    ELSE [ok |-> TRUE, pending |-> Remove(_pending_tokens, token)]

\* a response: the HTTP status and what the detail message is about
AdminResponse(op, status_code, detail, token) ==
    [op |-> op, status |-> status_code, detail |-> detail, token |-> token]

\* admin_api.py 61-74: verify_admin_key rejects the request (401)
Unauthorized(op) ==
    /\ admin_last' = AdminResponse(op, 401, "api key", 0)
    /\ UNCHANGED <<now, _pending_tokens, _last_cleanup_time, issued, confirmed>>

\* admin_api.py 190-219: request_cleanup
request_cleanup ==
    IF check_rate_limit
    THEN /\ admin_last' = AdminResponse("request_cleanup", 429, "rate limit", 0)
         /\ UNCHANGED <<now, _pending_tokens, _last_cleanup_time, issued,
                        confirmed>>
    ELSE LET token == Cardinality(DOMAIN issued) + 1
         IN  /\ token \in Tokens
             /\ _pending_tokens' =
                   generate_confirmation_token(token, "cleanup_database")
             /\ issued' = [t \in DOMAIN issued \cup {token} |->
                             IF t = token THEN now ELSE issued[t]]
             /\ admin_last' = AdminResponse("request_cleanup", 200, "", token)
             /\ UNCHANGED <<now, _last_cleanup_time, confirmed>>

\* admin_api.py 222-285: confirm_cleanup(body); cleared tells whether the
\* retriever calls (count, clear, count) return or one of them raises
confirm_cleanup(confirmation_token, confirm_text, cleared) ==
    IF confirm_text # REQUIRED_CONFIRMATION
    THEN /\ admin_last' = AdminResponse("confirm_cleanup", 400,
                                        "confirmation", confirmation_token)
         /\ UNCHANGED <<now, _pending_tokens, _last_cleanup_time, issued,
                        confirmed>>
    ELSE LET verified == verify_confirmation_token(confirmation_token,
                                                   "cleanup_database")
         IN  /\ _pending_tokens' = verified.pending
             /\ IF ~verified.ok
                THEN /\ admin_last' = AdminResponse("confirm_cleanup", 400,
                                                    "token",
                                                    confirmation_token)
                     /\ UNCHANGED <<_last_cleanup_time, confirmed>>
                ELSE /\ confirmed' =
                           Append(confirmed,
                                  [token |-> confirmation_token, at |-> now,
                                   cleared |-> cleared])
                     /\ _last_cleanup_time' =
                           IF cleared THEN <<now>> ELSE _last_cleanup_time
                     /\ admin_last' =
                           AdminResponse("confirm_cleanup",
                                         IF cleared THEN 200 ELSE 500,
                                         "", confirmation_token)
             /\ UNCHANGED <<now, issued>>

\* time passes between two requests
ClockTick ==
    /\ now + ClockStep <= MaxTime
    /\ now' = now + ClockStep
    /\ UNCHANGED <<_pending_tokens, _last_cleanup_time, issued, confirmed,
                   admin_last>>

\* admin_api.py 50-51: the module as loaded
AdminStart ==
    /\ now = 0
    /\ _pending_tokens = Empty
    /\ _last_cleanup_time = <<>>
    /\ issued = Empty
    /\ confirmed = <<>>
    /\ admin_last = AdminResponse("none", 0, "", 0)

AdminOff ==
    /\ now = 0
    /\ _pending_tokens = Empty
    /\ _last_cleanup_time = <<>>
    /\ issued = Empty
    /\ confirmed = <<>>
    /\ admin_last = AdminResponse("off", 0, "", 0)

\* ---- claims on the cleanup ----

\* the cleanups that were executed: accepted confirmations whose clear returned
Executed == { k \in DOMAIN confirmed : confirmed[k].cleared }

\* C27: cleanups are rate limited to one per 5 minutes: between any two
\* executed cleanups at least CLEANUP_COOLDOWN_SECONDS elapse, whatever the
\* interleaving of request_cleanup and confirm_cleanup.
C27_RateLimit ==
    \A i, j \in Executed :
        i < j => confirmed[j].at - confirmed[i].at >= CLEANUP_COOLDOWN_SECONDS

\* the step is a confirm_cleanup call with the required text
ConfirmStep(token) ==
    /\ admin_last'.op = "confirm_cleanup" /\ admin_last'.token = token
    /\ admin_last'.detail \in {"", "token"}
    /\ \/ admin_last' # admin_last
       \/ confirmed' # confirmed

Consumed(token) == \E k \in DOMAIN confirmed : confirmed[k].token = token

Expired(token) ==
    token \in DOMAIN issued /\ now > issued[token] + TOKEN_EXPIRY_SECONDS

\* C28 (state part): every accepted confirmation used a token that
\* request_cleanup issued at most TOKEN_EXPIRY_SECONDS earlier, and no token
\* was accepted twice
C28_TokensFresh ==
    /\ \A k \in DOMAIN confirmed :
          /\ confirmed[k].token \in DOMAIN issued
          /\ confirmed[k].at >= issued[confirmed[k].token]
          /\ confirmed[k].at - issued[confirmed[k].token] <= TOKEN_EXPIRY_SECONDS
    /\ \A i, j \in DOMAIN confirmed :
          confirmed[i].token = confirmed[j].token => i = j

\* C28 (step part): a confirmation with a token that was used or has
\* expired is rejected and executes nothing
C28_Rejected ==
    \A token \in Tokens :
        (ConfirmStep(token) /\ (Consumed(token) \/ Expired(token)))
            => /\ admin_last'.status = 400 /\ admin_last'.detail = "token"
               /\ confirmed' = confirmed

\* C28: every executed cleanup consumes one confirmation token issued by
\* request_cleanup for cleanup_database at most TOKEN_EXPIRY_SECONDS earlier
\* and not used before; after its use or expiry every later confirmation
\* with it is rejected.
C28_OneTimeTokens == []C28_TokensFresh /\ [][C28_Rejected]_vars

\* a cleanup was executed and a later confirmation with its token rejected
C28_Witness ==
    /\ Executed # {}
    /\ admin_last.op = "confirm_cleanup" /\ admin_last.status = 400
    /\ admin_last.detail = "token"
    /\ Consumed(admin_last.token)

-----------------------------------------------------------------------------
(***************************************************************************)
(* Part 13: MockRetriever (rag/retriever.py 48-106) beside the             *)
(* OptimizedRetriever of Part 6.  Both receive the same calls, one call    *)
(* after the other; the collections of the OptimizedRetriever answer       *)
(* every request (no sub-index operation fails).                           *)
(***************************************************************************)

\* retriever.py 78-80: index_table
MockIndexTable(table) ==
    /\ _tables' = DictPut(_tables, table.id, table)
    /\ mock_last' = [op |-> "index_table", ret |-> None]

\* retriever.py 82-87: delete_table
MockDeleteTable(table_id) ==
    IF table_id \in DOMAIN _tables
    THEN /\ _tables' = DictPop(_tables, table_id)
         /\ mock_last' = [op |-> "delete_table", ret |-> TRUE]
    ELSE /\ UNCHANGED _tables
         /\ mock_last' = [op |-> "delete_table", ret |-> FALSE]

\* retriever.py 89-91: get_table
MockGetTable(table_id) ==
    IF table_id \in DOMAIN _tables THEN _tables[table_id] ELSE NoTable

\* retriever.py 98-100: count
MockCount == Cardinality(DOMAIN _tables)

\* retriever.py 102-106: clear
MockClear ==
    /\ mock_last' = [op |-> "clear", ret |-> MockCount]
    /\ _tables' = Empty

\* no index_table call of the OptimizedRetriever is suspended
NoCallInFlight ==
    \A c \in Callers : index_calls[c].pc \notin {"enriching", "ready"}

\* index_table(t) reaches both: the OptimizedRetriever's call starts
BothIndexCall(t) ==
    /\ NoCallInFlight
    /\ IndexCall(1, t)
    /\ UNCHANGED mockVars

\* ... and completes; the MockRetriever stores the table it was given
BothIndexDone ==
    /\ IndexWrite(1)
    /\ MockIndexTable(index_calls[1].table)

\* delete_table(id) on both
BothDelete(id) ==
    /\ NoCallInFlight
    /\ DeleteTable(id)
    /\ st_last'.ret
    /\ MockDeleteTable(id)

\* clear() on both
BothClear ==
    /\ NoCallInFlight
    /\ Clear
    /\ MockClear

\* retriever.py 51-52
MockStart ==
    /\ _tables = Empty
    /\ mock_last = [op |-> "init", ret |-> None]

MockOff ==
    /\ _tables = Empty
    /\ mock_last = [op |-> "off"]

\* ---- claims on the two retrievers ----

\* C37: MockRetriever is equivalent to OptimizedRetriever: after every
\* sequence of index_table, delete_table and clear calls made to both, the
\* last delete_table returned the same value from both, the last clear
\* returned the same count, count() is the same, and get_table(id) is
\* present for the same ids.
C37_MockEquivalent ==
    /\ st_last.op \in {"delete_table", "clear"} => mock_last.ret = st_last.ret
    /\ NoCallInFlight =>
         /\ MockCount = count
         /\ \A id \in StoreIds :
               (MockGetTable(id) = NoTable) <=> (get_table(id) = NoTable)

-----------------------------------------------------------------------------
(***************************************************************************)
(* Part 14: OpenRouterEmbeddings.embed_batch (llm/openrouter_embeddings.py  *)
(* 99-144).  Each request to the API is a step whose outcome the            *)
(* environment chooses: the batch request answers 200 with one embedding    *)
(* per input in order, answers another status, or raises; a single request  *)
(* (embed, 76-97) returns the embedding or raises.                          *)
(***************************************************************************)

\* the embedding the API computes for a text
Embedding(text) == <<"embedding", text>>

\* openrouter_embeddings.py 142: [0.0] * 1024
ZeroVector == <<"zero", "">>

\* openrouter_embeddings.py 111: batch = texts[i:i + batch_size]
Batch == SubSeq(texts, eb_i + 1, Min(eb_i + batch_size, Len(texts)))

\* openrouter_embeddings.py 110 and 144: the next turn of the loop over the
\* batches, or the return
NextBatch ==
    /\ eb_i' = eb_i + batch_size
    /\ eb_j' = 0
    /\ eb_pc' = IF eb_i + batch_size < Len(texts) THEN "batch" ELSE "returned"

\* openrouter_embeddings.py 105-108
EmbedBatch ==
    /\ eb_pc = "called"
    /\ eb_pc' = IF texts = <<>> THEN "returned" ELSE "batch"
    /\ UNCHANGED <<texts, batch_size, all_embeddings, eb_i, eb_j>>

\* openrouter_embeddings.py 114-131: the request for the whole batch
BatchRequest(outcome) ==
    /\ eb_pc = "batch"
    /\ CASE outcome = "ok" ->
              /\ all_embeddings' =
                    all_embeddings
                      \o [k \in 1..Len(Batch) |-> Embedding(Batch[k])]
              /\ NextBatch
         [] outcome = "status" ->
              /\ eb_pc' = "fallback" /\ eb_j' = 0
              /\ UNCHANGED <<all_embeddings, eb_i>>
         [] outcome = "raise" ->
              /\ eb_pc' = "recover" /\ eb_j' = 0
              /\ UNCHANGED <<all_embeddings, eb_i>>
    /\ UNCHANGED <<texts, batch_size>>

\* openrouter_embeddings.py 130-131: `for text in batch:
\* all_embeddings.append(self.embed(text))` inside the try: an embed that
\* raises is caught at 133 and the except branch starts the batch again
SingleInTry(succeeds) ==
    /\ eb_pc = "fallback"
    /\ IF succeeds
       THEN /\ all_embeddings' =
                  Append(all_embeddings, Embedding(Batch[eb_j + 1]))
            /\ IF eb_j + 1 = Len(Batch) THEN NextBatch
               ELSE eb_j' = eb_j + 1 /\ UNCHANGED <<eb_i, eb_pc>>
       ELSE /\ eb_pc' = "recover" /\ eb_j' = 0
            /\ UNCHANGED <<all_embeddings, eb_i>>
    /\ UNCHANGED <<texts, batch_size>>

\* openrouter_embeddings.py 136-142: the loop of the except branch: a text
\* whose embed raises gets the zero vector
SingleInExcept(succeeds) ==
    /\ eb_pc = "recover"
    /\ all_embeddings' =
          Append(all_embeddings,
                 IF succeeds THEN Embedding(Batch[eb_j + 1]) ELSE ZeroVector)
    /\ IF eb_j + 1 = Len(Batch) THEN NextBatch
       ELSE eb_j' = eb_j + 1 /\ UNCHANGED <<eb_i, eb_pc>>
    /\ UNCHANGED <<texts, batch_size>>

\* Longest list of texts and largest batch_size.
MaxTexts == 3
MaxBatchSize == 2

EmbedTexts == {"a", "b"}

EmbedStart ==
    /\ texts \in UNION { [1..n -> EmbedTexts] : n \in 0..MaxTexts }
    /\ batch_size \in 1..MaxBatchSize
    /\ all_embeddings = <<>>
    /\ eb_i = 0 /\ eb_j = 0
    /\ eb_pc = "called"

EmbedOff ==
    /\ texts = <<>> /\ batch_size = 0 /\ all_embeddings = <<>>
    /\ eb_i = 0 /\ eb_j = 0 /\ eb_pc = "off"

\* ---- claims on embed_batch ----

\* C38: whenever embed_batch returns, it returns exactly one vector per
\* input text, in input order, for every pattern of batch-request and
\* single-request failures: each position holds the embedding of its text
\* or the zero vector, and no text is embedded twice into the output.
C38_OneVectorPerText ==
    eb_pc = "returned" =>
      /\ Len(all_embeddings) = Len(texts)
      /\ \A k \in DOMAIN all_embeddings :
            k \in DOMAIN texts =>
              all_embeddings[k] \in {Embedding(texts[k]), ZeroVector}

-----------------------------------------------------------------------------
(***************************************************************************)
(* Specifications                                                          *)
(***************************************************************************)

InitGraph == GraphStart /\ BmOff /\ SearchOff /\ StoreOff /\ HashOff /\ FbOff /\ AmbOff /\ FallbackOff /\ CdcOff /\ AdminOff /\ MockOff /\ EmbedOff
NextGraph ==
    \/ (\E n \in Nodes : Call(n)) /\ UNCHANGED exceptGraph
    \/ (\E n \in Nodes : Return(n)) /\ UNCHANGED exceptGraph
    \/ (\E n \in Nodes : Raise(n)) /\ UNCHANGED exceptGraph
    \/ decide /\ UNCHANGED exceptGraph
    \/ Superstep /\ UNCHANGED exceptGraph
SpecGraph == InitGraph /\ [][NextGraph]_vars

\* graph.py 156-165: the event loop resumes every wrapper whose awaited
\* implementation has returned or raised, and the compiled graph schedules
\* the next superstep when the current one is complete: a run that can take
\* a step eventually takes one.
SpecGraphLive == SpecGraph /\ WF_vars(NextGraph)

InitBm25 == BmStart /\ GraphOff /\ SearchOff /\ StoreOff /\ HashOff /\ FbOff /\ AmbOff /\ FallbackOff /\ CdcOff /\ AdminOff /\ MockOff /\ EmbedOff
NextBm25 == ComputeBm25 /\ UNCHANGED exceptBm
SpecBm25 == InitBm25 /\ [][NextBm25]_vars

InitFusion == FusionStart /\ GraphOff /\ BmOff /\ StoreOff /\ HashOff /\ FbOff /\ AmbOff /\ FallbackOff /\ CdcOff /\ AdminOff /\ MockOff /\ EmbedOff
NextFusion ==
    \/ SearchFusion(FusionHits) /\ UNCHANGED exceptSearch
    \/ SearchRerank(FusionReplies) /\ UNCHANGED exceptSearch
SpecFusion == InitFusion /\ [][NextFusion]_vars

InitRerank == RerankStart /\ GraphOff /\ BmOff /\ StoreOff /\ HashOff /\ FbOff /\ AmbOff /\ FallbackOff /\ CdcOff /\ AdminOff /\ MockOff /\ EmbedOff
NextRerank == SearchRerank(RerankReplies) /\ UNCHANGED exceptSearch
SpecRerank == InitRerank /\ [][NextRerank]_vars

InitSearch == FlowStart /\ GraphOff /\ BmOff /\ StoreOff /\ HashOff /\ FbOff /\ AmbOff /\ FallbackOff /\ CdcOff /\ AdminOff /\ MockOff /\ EmbedOff
NextSearch ==
    \/ SearchCall(FlowQueries) /\ UNCHANGED exceptSearch
    \/ SearchExpand /\ UNCHANGED exceptSearch
    \/ SearchFusion(FlowHits) /\ UNCHANGED exceptSearch
    \/ SearchRerank(FlowReplies) /\ UNCHANGED exceptSearch
    \/ SearchDone /\ UNCHANGED exceptSearch
SpecSearch == InitSearch /\ [][NextSearch]_vars

InitStore == StoreStart /\ GraphOff /\ BmOff /\ SearchOff /\ HashOff /\ FbOff /\ AmbOff /\ FallbackOff /\ CdcOff /\ AdminOff /\ MockOff /\ EmbedOff
NextStore ==
    \/ (\E t \in StoreTables : IndexCall(1, t)) /\ UNCHANGED exceptStore
    \/ IndexWrite(1) /\ UNCHANGED exceptStore
    \/ (\E id \in StoreIds : DeleteTable(id)) /\ UNCHANGED exceptStore
    \/ Clear /\ UNCHANGED exceptStore
SpecStore == InitStore /\ [][NextStore]_vars

InitIndexRace == RaceStart /\ GraphOff /\ BmOff /\ SearchOff /\ HashOff /\ FbOff /\ AmbOff /\ FallbackOff /\ CdcOff /\ AdminOff /\ MockOff /\ EmbedOff
NextIndexRace ==
    \/ (\E c \in Callers : \E t \in RaceTables(c) : IndexCall(c, t))
         /\ UNCHANGED exceptStore
    \/ (\E c \in Callers : IndexWrite(c)) /\ UNCHANGED exceptStore
SpecIndexRace == InitIndexRace /\ [][NextIndexRace]_vars

InitHash == HashStart /\ GraphOff /\ BmOff /\ SearchOff /\ StoreOff /\ FbOff /\ AmbOff /\ FallbackOff /\ CdcOff /\ AdminOff /\ MockOff /\ EmbedOff
NextHash == GenerateConceptHash /\ UNCHANGED exceptHash
SpecHash == InitHash /\ [][NextHash]_vars

InitFeedback == FbStart /\ GraphOff /\ BmOff /\ SearchOff /\ StoreOff /\ HashOff /\ AmbOff /\ FallbackOff /\ CdcOff /\ AdminOff /\ MockOff /\ EmbedOff
NextFeedback ==
    \/ (\E h \in ConceptHashes : \E t \in FbTableIds : \E d \in Decisions :
            RecordDecision(h, t, d[1], d[2])) /\ UNCHANGED exceptFb
    \/ (\E h \in ConceptHashes : \E t \in FbTableIds : \E n \in MinSamples :
            GetHistoricalScore(h, t, n)) /\ UNCHANGED exceptFb
    \/ TimePasses /\ UNCHANGED exceptFb
SpecFeedback == InitFeedback /\ [][NextFeedback]_vars

InitAmbiguity == AmbStart /\ GraphOff /\ BmOff /\ SearchOff /\ StoreOff /\ HashOff /\ FbOff /\ FallbackOff /\ CdcOff /\ AdminOff /\ MockOff /\ EmbedOff
NextAmbiguity == check_ambiguity /\ UNCHANGED exceptAmb
SpecAmbiguity == InitAmbiguity /\ [][NextAmbiguity]_vars

InitFallback == FallbackStart /\ GraphOff /\ BmOff /\ StoreOff /\ HashOff /\ FbOff /\ AmbOff /\ CdcOff /\ AdminOff /\ MockOff /\ EmbedOff
NextFallback ==
    \/ SearchRerank(FallbackReplies) /\ UNCHANGED fallback /\ UNCHANGED exceptSearchFallback
    \/ SearchWithDomainFallback /\ UNCHANGED searchVars /\ UNCHANGED exceptSearchFallback
SpecFallback == InitFallback /\ [][NextFallback]_vars

\* ---- the sync service over the store ----
InitCdc == CdcStart /\ GraphOff /\ BmOff /\ SearchOff /\ HashOff /\ FbOff /\ AmbOff /\ FallbackOff /\ AdminOff /\ MockOff /\ EmbedOff
NextCdc ==
    \/ (\E call \in FirstCalls : FirstSync(call)) /\ UNCHANGED exceptStoreCdc
    \/ (\E call \in CdcCalls : NextSync(call)) /\ UNCHANGED exceptStoreCdc
    \/ (\E dataframe \in Dataframes : Preview(dataframe)) /\ UNCHANGED exceptStoreCdc
    \/ Restart /\ UNCHANGED exceptStoreCdc
SpecCdc == InitCdc /\ [][NextCdc]_vars

\* ---- the cleanup endpoints of the admin API ----
InitAdmin == AdminStart /\ GraphOff /\ BmOff /\ SearchOff /\ StoreOff /\ HashOff /\ FbOff /\ AmbOff /\ FallbackOff /\ CdcOff /\ MockOff /\ EmbedOff
NextAdmin ==
    \/ request_cleanup /\ UNCHANGED exceptAdmin
    \/ (\E token \in Tokens, text \in ConfirmTexts, cleared \in BOOLEAN :
           confirm_cleanup(token, text, cleared)) /\ UNCHANGED exceptAdmin
    \/ (\E op \in {"request_cleanup", "confirm_cleanup"} : Unauthorized(op))
          /\ UNCHANGED exceptAdmin
    \/ ClockTick /\ UNCHANGED exceptAdmin
SpecAdmin == InitAdmin /\ [][NextAdmin]_vars


InitMock == MockStart /\ StoreStart /\ GraphOff /\ BmOff /\ SearchOff /\ HashOff /\ FbOff /\ AmbOff /\ FallbackOff /\ CdcOff /\ AdminOff /\ EmbedOff
NextMock ==
    \/ (\E t \in StoreTables : BothIndexCall(t)) /\ UNCHANGED exceptStoreMock
    \/ BothIndexDone /\ UNCHANGED exceptStoreMock
    \/ (\E id \in StoreIds : BothDelete(id)) /\ UNCHANGED exceptStoreMock
    \/ BothClear /\ UNCHANGED exceptStoreMock
SpecMock == InitMock /\ [][NextMock]_vars

InitEmbed == EmbedStart /\ GraphOff /\ BmOff /\ SearchOff /\ StoreOff /\ HashOff /\ FbOff /\ AmbOff /\ FallbackOff /\ CdcOff /\ AdminOff /\ MockOff
NextEmbed ==
    \/ EmbedBatch /\ UNCHANGED exceptEmbed
    \/ (\E outcome \in {"ok", "status", "raise"} : BatchRequest(outcome))
         /\ UNCHANGED exceptEmbed
    \/ (\E succeeds \in BOOLEAN : SingleInTry(succeeds)) /\ UNCHANGED exceptEmbed
    \/ (\E succeeds \in BOOLEAN : SingleInExcept(succeeds))
         /\ UNCHANGED exceptEmbed
SpecEmbed == InitEmbed /\ [][NextEmbed]_vars

====
